---------------------------- MODULE Spec2Model ----------------------------
(***************************************************************************)
(* A model of the protocol-adaptation proxy (anyproxyai).                  *)
(*                                                                         *)
(* The module holds several specifications over one set of variables:      *)
(*   Spec             the signature store (signature_store.go) with its    *)
(*                    concurrent callers, its clock and its sweeper;       *)
(*   SpecRace         the same calls, observed for one fingerprint;        *)
(*   SpecSession      requests of two conversations through the cursor     *)
(*                    adapter and FilterInvalidThinkingBlocks;             *)
(*   SpecFingerprint  GenerateSessionID over a growing conversation;       *)
(*   SpecStream       streamWithAdapter / streamDirect relaying a stream;  *)
(*   SpecProxy        ProxyService.ProxyRequest for one request;           *)
(*   SpecSweep        the signature store with the sweeper's ticker, under *)
(*                    fairness;                                            *)
(*   SpecTranscode    AdaptRequest of two request transcoders;             *)
(*   SpecSanitize     sanitizeJSONSchema applied to its own result;        *)
(*   SpecFinish       the adapters' conversion of finish reasons.          *)
(* Each specification leaves the variables of the others untouched.        *)
(*                                                                         *)
(* Strings of the program are TLA+ strings, so that Len is Go's len().     *)
(* Time is counted in minutes.                                             *)
(***************************************************************************)
EXTENDS Integers, Sequences, FiniteSets, TLC

VARIABLES
    \* ---- signature_store.go: globalSessionStore and the clock
    store,                  \* globalSessionStore.store: sessionID -> SignatureEntry
    mu,                     \* globalSessionStore.mu (sync.RWMutex): the goroutine that
                            \*   holds it for writing, those that hold it for reading,
                            \*   and whether the sweeper's Lock() is waiting for it
    now,                    \* time.Now(), in minutes
    \* ---- the goroutines calling the store
    pc,                     \* caller -> position inside the call
    arg,                    \* caller -> arguments of the call in progress
    entryRead,              \* caller -> the entry read under the lock (line 116 / 137)
    ret,                    \* the last completed call: what it returned and did
    \* ---- history (observers, never read by the program)
    offered,                \* the signatures whose store call for FA completed
    epoch,                  \* "none": no store call for FA completed yet;
                            \*   "open": since the first one, no clear of FA and no clock tick;
                            \*   "closed": otherwise
    \* ---- cursor_adapter.go: the thought signature shared by the cursor adapter
    globalThoughtSignature, \* var globalThoughtSignature string (lines 15-18)
    build,                  \* which of the package's two StoreThoughtSignature /
                            \*   GetThoughtSignature / ClearThoughtSignature is linked:
                            \*   "legacy" (cursor_adapter.go:21-46) or
                            \*   "shim" (signature_store.go:203-215)
    filterRet,              \* the last FilterInvalidThinkingBlocks call: the conversation
                            \*   of its request, its input, its output
    \* ---- one conversation and the fingerprints of its requests
    conversation,           \* the conversation's message list so far
    sent,                   \* the list as it stands was sent as a request
    sessionIDs,             \* GenerateSessionID's result for each request, in order
    \* ---- proxy_service.go: one streaming request being relayed
    adapterName,            \* the adapter of the stream ("" relays it unadapted)
    upstream,               \* resp.Body: the data lines the upstream sends
    scanned,                \* how many of them the relay loop has read
    writer,                 \* what was written to the client, in order
    streamRet,              \* "idle", "running", "nil" (returned nil) or "error"
    streamLog,              \* the success flags of the LogRequest calls of the stream
    connected,              \* the client's connection is up: writes to it succeed
    failedAt,               \* history: how many lines had been read when a write to the
                            \*   client first failed (0: no write failed)
    \* ---- proxy_service.go: one non-streaming request (ProxyRequest)
    config,                 \* s.config: RedirectEnabled, RedirectKeyword, RedirectTargetModel
    request,                \* the client's request
    proxyPc,                \* "idle", "routed" (a route was found), "waiting" (inside
                            \*   httpClient.Do), "relaying" (inside streamWithAdapter or
                            \*   streamDirect), "returned", "panicked"
    local,                  \* the handler's locals: model, route, adapterName
    dispatches,             \* the requests sent to the upstream, in order
    answers,                \* the upstream's answers, in order
    clientResp,             \* what the client received
    usageLog,               \* the rows LogRequest wrote
    update,                 \* App.UpdateConfig in progress: its arguments and position
    \* ---- history (observers, never read by the program)
    configSeen,             \* what s.config held at each point where the handler read it
    versions,               \* the configurations installed so far, whole
    \* ---- the adapters' AdaptRequest on one request
    transcoder,             \* the adapter whose AdaptRequest ran ("" before the call)
    source,                 \* the messages (contents) of the client's request
    emitted,                \* the messages of the request AdaptRequest returned
    nanos,                  \* time.Now().UnixNano()
    \* ---- cursor_adapter.go: sanitizeJSONSchema applied again and again
    schema,                 \* the schema a tool of the request declares
    sanitized,              \* the results of the successive calls, in order
    \* ---- the adapters' conversion of the upstream's finish reason
    finished                \* the conversions made, in order: the adapter, the reason
                            \*   the upstream gave and the one handed to the client

storeVars == <<store, mu, now, pc, arg, entryRead, ret, offered, epoch>>

sessionVars == <<globalThoughtSignature, build, filterRet>>

fingerprintVars == <<conversation, sent, sessionIDs>>

adapterVars == <<transcoder, source, emitted, nanos, schema, sanitized, finished>>

streamVars == <<adapterName, upstream, scanned, writer, streamRet, streamLog, connected,
                failedAt>>

proxyVars == <<config, request, proxyPc, local, dispatches, answers, clientResp, usageLog,
               update, configSeen, versions>>

vars == <<storeVars, sessionVars, fingerprintVars, adapterVars, streamVars, proxyVars>>

\* What the calls of the signature store leave alone
outsideStore == <<sessionVars, fingerprintVars, adapterVars, streamVars, proxyVars>>

-----------------------------------------------------------------------------
(* Bounds and program constants *)

\* The clock stops here.
MaxTime == 90

\* The most content blocks in an assistant message of a request
MaxBlocks == 2

\* The most messages a conversation grows to
MaxTurns == 5

\* The most text deltas the upstream sends in one stream
MaxDeltas == 2

\* The most UpdateConfig calls made while the request is served
MaxUpdates == 1

\* The latest reading of the clock, in nanoseconds, when a request is transcoded
MaxNanos == 3

\* The most times sanitizeJSONSchema is applied in a row
MaxPasses == 2

\* The most upstream replies whose finish reason is converted
MaxReplies == 2

\* maxMessages := 3 in GenerateSessionID
maxMessages == 3

\* c[:200] in extractContentForHash
HashContentLimit == 200

\* hex.EncodeToString(hash[:])[:16]
SessionIDLength == 16

\* globalSessionStore.ttl = 1 * time.Hour, in minutes
ttl == 60

\* time.NewTicker(10 * time.Minute): the sweeper's period, in minutes
cleanupInterval == 10

\* const MinSignatureLength = 50
MinSignatureLength == 50

\* sessionID[:8] in the two log.Debugf calls of signature_store.go
SessionLogPrefix == 8

-----------------------------------------------------------------------------
(* Values *)

\* Two signatures of 60 characters, one of 120 and one too short to be valid.
S1 == "SIG_AAAAAAAAAAAAAAAAAAAAAAAAAAAAAAAAAAAAAAAAAAAAAAAAAAAAAAAAAAAA"
S1b == "SIG_CCCCCCCCCCCCCCCCCCCCCCCCCCCCCCCCCCCCCCCCCCCCCCCCCCCCCCCCCCCC"
S2 == "SIG_BBBBBBBBBBBBBBBBBBBBBBBBBBBBBBBBBBBBBBBBBBBBBBBBBBBBBBBBBBBBBBBBBBBBBBBBBBBBBBBBBBBBBBBBBBBBBBBBBBBBBBBBBBBBBBBBBBBBBBBB"
SShort == "sig_short"

Signatures == {S1, S1b, S2}

\* const defaultSessionID = "default"
defaultSessionID == "default"

\* Two fingerprints as GenerateSessionID returns them (16 hex characters).
FA == "a1b2c3d4e5f60718"
FB == "0f1e2d3c4b5a6978"

SessionIDs == {defaultSessionID, FA}

Callers == {"r1", "r2"}

NoEntry == [Signature |-> "", ExpiresAt |-> -1, CreatedAt |-> -1, present |-> FALSE]

NoArg == [sessionID |-> "", signature |-> ""]

NoRet == [op |-> "none", sessionID |-> "", value |-> "", outcome |-> "", panicked |-> FALSE]

Unlocked == [writer |-> "none", readers |-> {}, pending |-> FALSE]

NoRequest == [json |-> FALSE, stream |-> FALSE, model |-> "", auth |-> "",
              hasThinking |-> FALSE, reasoning |-> FALSE]

\* JSON values as encoding/json decodes them into interface{}: nil, a string, a
\* bool, a []interface{} or a map[string]interface{}
JNull == [t |-> "null"]

JString(s) == [t |-> "string", s |-> s]

JBool(b) == [t |-> "bool", b |-> b]

JArray(a) == [t |-> "array", a |-> a]

JMap(m) == [t |-> "map", m |-> m]

\* The handler's locals before the route lookup
NoLocal == [model |-> "", routeID |-> 0, adapterName |-> ""]

\* No UpdateConfig call in progress; count is the number of calls made
NoUpdate == [line |-> 0, count |-> 0,
             new |-> [RedirectEnabled |-> FALSE, RedirectKeyword |-> "proxy_auto",
                      RedirectTargetModel |-> ""]]

NoResponse == [status |-> 0, body |-> "", adapted |-> FALSE, models |-> {}]

NoFilterRet == [conv |-> "", input |-> <<>>, output |-> <<>>, globalSig |-> "",
                totalFiltered |-> 0]

-----------------------------------------------------------------------------
(* signature_store.go *)

\* time.Now().After(entry.ExpiresAt)
Expired(entry, t) == t > entry.ExpiresAt

\* store[sessionID] as Go reads it: the entry, or nil
Lookup(st, sessionID) ==
    IF sessionID \in DOMAIN st
    THEN [Signature |-> st[sessionID].Signature, ExpiresAt |-> st[sessionID].ExpiresAt,
          CreatedAt |-> st[sessionID].CreatedAt, present |-> TRUE]
    ELSE NoEntry

\* A Lock() that never waits.
CanLockNoMutex(m) == TRUE

\* mu.Lock() can proceed; a Lock() that came first and is waiting goes first
CanLock(m) == m.writer = "none" /\ m.readers = {} /\ ~m.pending

\* mu.RLock() can proceed: sync.RWMutex admits no new reader while a Lock() waits
CanRLock(m) == m.writer = "none" /\ ~m.pending

\* A store that takes the newest signature whatever its length.
StoreLastWriterWins(st, entry, sessionID, signature, t) ==
    [s \in DOMAIN st \cup {sessionID} |->
        IF s = sessionID
        THEN [Signature |-> signature, ExpiresAt |-> t + ttl, CreatedAt |-> t]
        ELSE st[s]]

\* A store that renews the expiry time of the entry it declines to replace.
StoreRenewsOnReject(st, entry, sessionID, signature, t) ==
    [s \in DOMAIN st \cup {sessionID} |->
        IF s # sessionID THEN st[s]
        ELSE IF ~entry.present \/ Len(signature) > Len(entry.Signature)
        THEN [Signature |-> signature, ExpiresAt |-> t + ttl, CreatedAt |-> t]
        ELSE [st[s] EXCEPT !.ExpiresAt = t + ttl]]

\* StoreSignatureForSession, lines 116-125: the map after the call, given the entry
\* read at line 116.
StoreSignatureForSession(st, entry, sessionID, signature, t) ==
    IF ~entry.present \/ Len(signature) > Len(entry.Signature)
    THEN [s \in DOMAIN st \cup {sessionID} |->
            IF s = sessionID
            THEN [Signature |-> signature, ExpiresAt |-> t + ttl, CreatedAt |-> t]
            ELSE st[s]]
    ELSE st

\* Whether the call reaches log.Debugf at line 124
StoreAccepted(entry, signature) ==
    ~entry.present \/ Len(signature) > Len(entry.Signature)

\* What a store call did with the entry it read (an observation, for ret)
StoreOutcome(entry, signature) ==
    IF ~StoreAccepted(entry, signature) THEN "rejected"
    ELSE IF entry.present THEN "replaced"
    ELSE "created"

\* sessionID[:8] panics on a shorter string
SlicePanics(sessionID) == Len(sessionID) < SessionLogPrefix

\* A lookup that forgets the expiry check.
GetIgnoresExpiry(entry, t) ==
    IF ~entry.present THEN "" ELSE entry.Signature

\* GetSignatureForSession, lines 137-147, given the entry read at line 137
GetSignatureForSession(entry, t) ==
    IF ~entry.present THEN ""
    ELSE IF Expired(entry, t) THEN ""
    ELSE entry.Signature

\* A pass that also drops the entries whose ExpiresAt is the present minute.
cleanupAtExpiry(st, t) ==
    [s \in {x \in DOMAIN st : t < st[x].ExpiresAt} |-> st[s]]

\* cleanup, lines 168-179: the map without its expired entries
cleanup(st, t) ==
    [s \in {x \in DOMAIN st : ~Expired(st[x], t)} |-> st[s]]

-----------------------------------------------------------------------------
(* cursor_adapter.go: the thought signature and the thinking-block filter *)

\* StoreThoughtSignature, cursor_adapter.go lines 21-32
StoreThoughtSignatureGlobal(g, sig) ==
    IF sig = "" THEN g
    ELSE IF g = "" \/ Len(sig) > Len(g) THEN sig
    ELSE g

\* StoreThoughtSignature, signature_store.go lines 203-205: the map after
\* StoreSignatureForSession(defaultSessionID, sig)
StoreThoughtSignatureShim(st, sig, t) ==
    IF sig = "" THEN st
    ELSE StoreSignatureForSession(st, Lookup(st, defaultSessionID), defaultSessionID, sig, t)

\* GetThoughtSignature, as linked: cursor_adapter.go lines 35-39 or
\* signature_store.go lines 208-210
GetThoughtSignature ==
    IF build = "legacy" THEN globalThoughtSignature
    ELSE GetSignatureForSession(Lookup(store, defaultSessionID), now)

\* A content block of a message. Absent string fields read as "".
ThinkingBlock(thinking, signature) ==
    [type |-> "thinking", thinking |-> thinking, text |-> "", signature |-> signature,
     cache_control |-> FALSE]

TextBlock(text) ==
    [type |-> "text", thinking |-> "", text |-> text, signature |-> "",
     cache_control |-> FALSE]

ToolUseBlock ==
    [type |-> "tool_use", thinking |-> "", text |-> "", signature |-> "",
     cache_control |-> FALSE]

\* strings.TrimSpace(thinkingText) == "" for the texts of the model
TrimSpaceIsEmpty(text) == text \in {"", " "}

\* HasValidSignature, lines 650-669
HasValidSignature(block) ==
    IF block.type # "thinking" THEN TRUE
    ELSE IF block.thinking = "" /\ block.signature # "" THEN TRUE
    ELSE IF block.signature # "" /\ Len(block.signature) >= MinSignatureLength THEN TRUE
    ELSE FALSE

\* A filter that repairs with whatever signature is stored, short ones included.
FilterBlockRepairsWithAny(block, globalSig) ==
    IF block.type = "thinking"
    THEN IF HasValidSignature(block)
         THEN <<ThinkingBlock(block.thinking, block.signature)>>
         ELSE IF globalSig # ""
         THEN <<ThinkingBlock(block.thinking, globalSig)>>
         ELSE IF ~TrimSpaceIsEmpty(block.thinking)
         THEN <<TextBlock(block.thinking)>>
         ELSE <<>>
    ELSE <<[block EXCEPT !.cache_control = FALSE]>>

\* FilterInvalidThinkingBlocks, lines 696-741: what one block contributes to newBlocks
FilterBlock(block, globalSig) ==
    IF block.type = "thinking"
    THEN IF HasValidSignature(block)
         THEN <<ThinkingBlock(block.thinking, block.signature)>>
         ELSE IF globalSig # "" /\ Len(globalSig) >= MinSignatureLength
         THEN <<ThinkingBlock(block.thinking, globalSig)>>
         ELSE IF ~TrimSpaceIsEmpty(block.thinking)
         THEN <<TextBlock(block.thinking)>>
         ELSE <<>>
    ELSE <<[block EXCEPT !.cache_control = FALSE]>>

\* lines 717-731: the block counts in totalFiltered
BlockIsFiltered(block, globalSig) ==
    /\ block.type = "thinking"
    /\ ~HasValidSignature(block)
    /\ ~(globalSig # "" /\ Len(globalSig) >= MinSignatureLength)

RECURSIVE FilterBlocks(_, _)
\* lines 689-742: the loop over the blocks of one message
FilterBlocks(content, globalSig) ==
    IF content = <<>> THEN <<>>
    ELSE FilterBlock(Head(content), globalSig) \o FilterBlocks(Tail(content), globalSig)

\* The loop over one message without the closing check of lines 748-754.
FilterMessageMayEmpty(msg, globalSig) ==
    IF msg.role # "assistant" /\ msg.role # "model" THEN msg
    ELSE IF msg.kind # "list" THEN msg
    ELSE [msg EXCEPT !.content = FilterBlocks(msg.content, globalSig)]

\* lines 677-756: one message of the loop
FilterMessage(msg, globalSig) ==
    IF msg.role # "assistant" /\ msg.role # "model" THEN msg
    ELSE IF msg.kind # "list" THEN msg
    ELSE LET newBlocks == FilterBlocks(msg.content, globalSig)
         IN  [msg EXCEPT !.content = IF newBlocks = <<>> THEN <<TextBlock("")>>
                                     ELSE newBlocks]

\* FilterInvalidThinkingBlocks, lines 673-764: the messages after the call
FilterInvalidThinkingBlocks(messages, globalSig) ==
    [k \in 1..Len(messages) |-> FilterMessage(messages[k], globalSig)]

RECURSIVE CountFiltered(_, _)
CountFiltered(content, globalSig) ==
    IF content = <<>> THEN 0
    ELSE (IF BlockIsFiltered(Head(content), globalSig) THEN 1 ELSE 0)
         + CountFiltered(Tail(content), globalSig)

RECURSIVE totalFiltered(_, _)
\* the value FilterInvalidThinkingBlocks returns
totalFiltered(messages, globalSig) ==
    IF messages = <<>> THEN 0
    ELSE (IF Head(messages).role \in {"assistant", "model"} /\ Head(messages).kind = "list"
          THEN CountFiltered(Head(messages).content, globalSig) ELSE 0)
         + totalFiltered(Tail(messages), globalSig)

-----------------------------------------------------------------------------
(* signature_store.go: the conversation fingerprint *)

\* A text of more than 200 characters
Pad == "01234567890123456789012345678901234567890123456789"

LongText == Pad \o Pad \o Pad \o Pad \o "-and-more"

\* json.Marshal of one content block of the model (keys in sorted order)
jsonMarshalBlock(block) ==
    IF block.type = "tool_use" THEN "{\"type\":\"tool_use\"}"
    ELSE IF block.type = "text"
    THEN "{\"text\":\"" \o block.text \o "\",\"type\":\"text\"}"
    ELSE "{\"signature\":\"" \o block.signature \o "\",\"thinking\":\""
         \o block.thinking \o "\",\"type\":\"thinking\"}"

RECURSIVE jsonMarshalItems(_)
jsonMarshalItems(content) ==
    IF content = <<>> THEN ""
    ELSE IF Len(content) = 1 THEN jsonMarshalBlock(Head(content))
    ELSE jsonMarshalBlock(Head(content)) \o "," \o jsonMarshalItems(Tail(content))

\* json.Marshal(content) for a list of blocks, line 97
jsonMarshal(content) == "[" \o jsonMarshalItems(content) \o "]"

\* lines 77-80, 87-90, 99-102: the first 200 bytes
TruncateForHash(c) ==
    IF Len(c) > HashContentLimit THEN SubSeq(c, 1, HashContentLimit) ELSE c

\* extractContentForHash, lines 73-105
extractContentForHash(msg) ==
    IF msg.kind = "string" THEN TruncateForHash(msg.text)
    ELSE IF \E j \in 1..Len(msg.content) : msg.content[j].type = "text"
    THEN LET j == CHOOSE j \in 1..Len(msg.content) :
                     /\ msg.content[j].type = "text"
                     /\ \A h \in 1..(j - 1) : msg.content[h].type # "text"
         IN  TruncateForHash(msg.content[j].text)
    ELSE TruncateForHash(jsonMarshal(msg.content))

RECURSIVE JoinParts(_)
\* strings.Join(contentParts, "|")
JoinParts(parts) ==
    IF parts = <<>> THEN ""
    ELSE IF Len(parts) = 1 THEN Head(parts)
    ELSE Head(parts) \o "|" \o JoinParts(Tail(parts))

\* sha256.Sum256 in hexadecimal, tabulated for the strings the model hashes
sha256Table ==
    {<<"user:" \o "hi",
       "823631717fa117455ac8d16e2d380b9b38840f26ba22f0c13d6e41751afb1f88">>,
     <<"user:" \o SubSeq(LongText, 1, 200),
       "4f89e084fe1e559ff2cefd8ec94bdbb0a5d33768907c6584b2a26df98ac1f1ce">>,
     <<"user:" \o "hi" \o "|assistant:" \o "ok",
       "3473226399f18ffc0222a8dae38b7cc6b0add380a4b53dd9e6af0bbd8c5c19d3">>,
     <<"user:" \o "hi" \o "|assistant:" \o jsonMarshal(<<ToolUseBlock>>),
       "987bf444d5b0775c1ac1d1209fdb0e416df59e608d076a4059202d77b145cde1">>,
     <<"user:" \o SubSeq(LongText, 1, 200) \o "|assistant:" \o "ok",
       "851238aecf36b746fff2943c2cb12197f42394918dbbbb9d0fa96c3ab489619c">>,
     <<"user:" \o SubSeq(LongText, 1, 200) \o "|assistant:" \o jsonMarshal(<<ToolUseBlock>>),
       "e6dc6f6df5fe86f7d49092de6babfcb9c2959909966d1aa03edf319c3ebf20ce">>,
     <<"user:" \o "hi" \o "|assistant:" \o "ok" \o "|user:" \o "hi",
       "a003724eb828c41f322f668c5eb8cf7bafc9dd43a2eb0f3ad5fa6445214c61ec">>,
     <<"user:" \o "hi" \o "|assistant:" \o "ok" \o "|user:" \o SubSeq(LongText, 1, 200),
       "1313d655db7a4d7f5e786969f0ebff307644c57f6b5bbb8610535e322ab850e4">>,
     <<"user:" \o "hi" \o "|assistant:" \o jsonMarshal(<<ToolUseBlock>>) \o "|user:" \o "hi",
       "3dcd12588e60dd6bbae8b40cef3ce974afa77777b94047e79d1be8d263df5cf0">>,
     <<"user:" \o "hi" \o "|assistant:" \o jsonMarshal(<<ToolUseBlock>>) \o "|user:" \o SubSeq(LongText, 1, 200),
       "fb48040b931e71c5b3279a0078f2081affec3992f75be5fe0e9cda4b44078795">>,
     <<"user:" \o SubSeq(LongText, 1, 200) \o "|assistant:" \o "ok" \o "|user:" \o "hi",
       "7083e94bd3036b195a0128c37b2431ce4ed1208e2b7d2f53bedd623af384a733">>,
     <<"user:" \o SubSeq(LongText, 1, 200) \o "|assistant:" \o "ok" \o "|user:" \o SubSeq(LongText, 1, 200),
       "cd7975e0fd8ee220be6d78fa2078cd2c8f62a50e7556115e31eb2d638faf2901">>,
     <<"user:" \o SubSeq(LongText, 1, 200) \o "|assistant:" \o jsonMarshal(<<ToolUseBlock>>) \o "|user:" \o "hi",
       "027e362c993381404d4bf0df15f7d5500a910c46127f1e215472cfaf3d8a6b0b">>,
     <<"user:" \o SubSeq(LongText, 1, 200) \o "|assistant:" \o jsonMarshal(<<ToolUseBlock>>) \o "|user:" \o SubSeq(LongText, 1, 200),
       "a25acbbe52b024e4ab7d8897a6a3ff10162edb93e0e241f284ee6c53293bbbcb">>}
\* hex.EncodeToString(sha256.Sum256([]byte(s))[:])
sha256Hex(s) == (CHOOSE row \in sha256Table : row[1] = s)[2]

\* min(3, len(messages)), lines 54-57
HashedMessages(msgs) == IF Len(msgs) < maxMessages THEN Len(msgs) ELSE maxMessages

\* GenerateSessionID, lines 46-70
GenerateSessionID(msgs) ==
    IF Len(msgs) = 0 THEN ""
    ELSE LET contentParts ==
                 [k \in 1..HashedMessages(msgs) |->
                     msgs[k].role \o ":" \o extractContentForHash(msgs[k])]
         IN  SubSeq(sha256Hex(JoinParts(contentParts)), 1, SessionIDLength)

-----------------------------------------------------------------------------
(* The stream events and the adapters' AdaptStreamChunk *)

\* One decoded "data: " line, upstream or client side. "" stands for a field that is
\* absent or null.
NoChunk ==
    [object |-> "", type |-> "", index |-> -1, blockType |-> "", deltaType |-> "",
     text |-> "", thinking |-> "", signature |-> "", stop_reason |-> "",
     finish_reason |-> "", role |-> ""]

\* The Anthropic events
MessageStart == [NoChunk EXCEPT !.type = "message_start"]

ContentBlockStart(index, blockType) ==
    [NoChunk EXCEPT !.type = "content_block_start", !.index = index,
                    !.blockType = blockType]

TextDelta(index, text) ==
    [NoChunk EXCEPT !.type = "content_block_delta", !.index = index,
                    !.deltaType = "text_delta", !.text = text]

ThinkingDelta(index, thinking) ==
    [NoChunk EXCEPT !.type = "content_block_delta", !.index = index,
                    !.deltaType = "thinking_delta", !.thinking = thinking]

SignatureDelta(index, signature) ==
    [NoChunk EXCEPT !.type = "content_block_delta", !.index = index,
                    !.deltaType = "signature_delta", !.signature = signature]

ContentBlockStop(index) ==
    [NoChunk EXCEPT !.type = "content_block_stop", !.index = index]

MessageDelta(stop_reason) ==
    [NoChunk EXCEPT !.type = "message_delta", !.stop_reason = stop_reason]

MessageStop == [NoChunk EXCEPT !.type = "message_stop"]

\* An OpenAI chat.completion.chunk with its choices[0]
OpenAIChunk(role, content, signature, finish_reason) ==
    [NoChunk EXCEPT !.object = "chat.completion.chunk", !.index = 0, !.role = role,
                    !.text = content, !.signature = signature,
                    !.finish_reason = finish_reason]

\* The line "data: [DONE]"
DoneLine == [NoChunk EXCEPT !.object = "[DONE]"]

\* The line "data: null": json.Marshal of a nil map
NullLine == [NoChunk EXCEPT !.object = "null"]

\* AnthropicAdapter.convertStopReason, part_007 lines 258-279
convertStopReason(reason) ==
    IF reason = "" THEN "stop"
    ELSE IF reason = "end_turn" THEN "stop"
    ELSE IF reason = "max_tokens" THEN "length"
    ELSE IF reason = "stop_sequence" THEN "stop"
    ELSE "stop"

\* AnthropicAdapter.AdaptStreamChunk, part_007 lines 113-244
AnthropicAdaptStreamChunk(chunk) ==
    LET base == [NoChunk EXCEPT !.object = "chat.completion.chunk", !.index = 0]
    IN  IF chunk.type = "content_block_delta"
        THEN [base EXCEPT !.role = "assistant", !.text = chunk.text]
        ELSE IF chunk.type = "message_delta"
        THEN [base EXCEPT !.finish_reason =
                 IF chunk.stop_reason # "" THEN convertStopReason(chunk.stop_reason)
                 ELSE ""]
        ELSE IF chunk.type = "message_stop"
        THEN [base EXCEPT !.finish_reason = "stop"]
        ELSE base

\* OpenAIToClaudeAdapter.AdaptStreamChunk, openai_to_claude.go lines 274-339
OpenAIToClaudeAdaptStreamChunk(chunk) ==
    IF chunk.object = "chat.completion.chunk"
    THEN IF chunk.text # "" THEN TextDelta(0, chunk.text)
         ELSE IF chunk.role # "" THEN NullLine
         ELSE IF chunk.finish_reason # "" THEN MessageStop
         ELSE NullLine
    ELSE NullLine

\* OpenAIToClaudeAdapter.AdaptStreamStart, openai_to_claude.go lines 341-376
OpenAIToClaudeAdaptStreamStart == <<MessageStart, ContentBlockStart(0, "text")>>

\* OpenAIToClaudeAdapter.AdaptStreamEnd, openai_to_claude.go lines 378-403
OpenAIToClaudeAdaptStreamEnd == <<ContentBlockStop(0), MessageDelta("end_turn")>>

\* DeepSeekAdapter.AdaptStreamChunk, deepseek.go lines 25-27, and the chunk
\* CursorAdapter.AdaptStreamChunk returns, cursor_adapter.go line 458
IdentityAdaptStreamChunk(chunk) == chunk

\* adapter.AdaptStreamChunk(chunk) of the adapter GetAdapter(name) returns
AdaptStreamChunk(name, chunk) ==
    IF name = "anthropic" THEN AnthropicAdaptStreamChunk(chunk)
    ELSE IF name = "openai-to-claude" THEN OpenAIToClaudeAdaptStreamChunk(chunk)
    ELSE IdentityAdaptStreamChunk(chunk)

\* The signature CursorAdapter.AdaptStreamChunk hands to StoreThoughtSignature
\* (lines 448-455): choices[0].delta.signature
CursorChunkSignature(name, chunk) ==
    IF name = "cursor" /\ chunk.object = "chat.completion.chunk" THEN chunk.signature
    ELSE ""

-----------------------------------------------------------------------------
(* The calls of the signature store, one goroutine per caller *)

StoreInit ==
    /\ store = <<>>
    /\ mu = Unlocked
    /\ now = 0
    /\ pc = [i \in Callers |-> "idle"]
    /\ arg = [i \in Callers |-> NoArg]
    /\ entryRead = [i \in Callers |-> NoEntry]
    /\ ret = NoRet
    /\ offered = {}
    /\ epoch = "none"

\* StoreSignatureForSession, lines 109-114: the early return, else mu.Lock()
StoreCall(i, sessionID, signature) ==
    /\ pc[i] = "idle"
    /\ IF sessionID = "" \/ signature = ""
       THEN /\ ret' = [op |-> "store", sessionID |-> "", value |-> "",
                       outcome |-> "skipped", panicked |-> FALSE]
            /\ UNCHANGED <<mu, pc, arg>>
       ELSE /\ CanLock(mu)
            /\ mu' = [mu EXCEPT !.writer = i]
            /\ pc' = [pc EXCEPT ![i] = "store_read"]
            /\ arg' = [arg EXCEPT ![i] = [sessionID |-> sessionID, signature |-> signature]]
            /\ UNCHANGED ret
    /\ UNCHANGED <<store, now, outsideStore, entryRead>>

\* line 116: entry := globalSessionStore.store[sessionID]
StoreRead(i) ==
    /\ pc[i] = "store_read"
    /\ entryRead' = [entryRead EXCEPT ![i] = Lookup(store, arg[i].sessionID)]
    /\ pc' = [pc EXCEPT ![i] = "store_write"]
    /\ UNCHANGED <<store, mu, now, outsideStore, arg, ret>>

\* lines 118-126: the conditional write, the log line and the deferred Unlock
StoreWrite(i) ==
    /\ pc[i] = "store_write"
    /\ store' = StoreSignatureForSession(store, entryRead[i], arg[i].sessionID,
                                         arg[i].signature, now)
    /\ ret' = [op |-> "store", sessionID |-> arg[i].sessionID, value |-> "",
               outcome |-> StoreOutcome(entryRead[i], arg[i].signature),
               panicked |-> StoreAccepted(entryRead[i], arg[i].signature)
                            /\ SlicePanics(arg[i].sessionID)]
    /\ mu' = [mu EXCEPT !.writer = IF mu.writer = i THEN "none" ELSE mu.writer]
    /\ pc' = [pc EXCEPT ![i] = "idle"]
    /\ arg' = [arg EXCEPT ![i] = NoArg]
    /\ entryRead' = [entryRead EXCEPT ![i] = NoEntry]
    /\ UNCHANGED <<now, outsideStore>>

\* GetSignatureForSession, lines 130-135: the early return, else mu.RLock()
GetCall(i, sessionID) ==
    /\ pc[i] = "idle"
    /\ IF sessionID = ""
       THEN /\ ret' = [op |-> "get", sessionID |-> "", value |-> "",
                       outcome |-> "skipped", panicked |-> FALSE]
            /\ UNCHANGED <<mu, pc, arg>>
       ELSE /\ CanRLock(mu)
            /\ mu' = [mu EXCEPT !.readers = @ \cup {i}]
            /\ pc' = [pc EXCEPT ![i] = "get_read"]
            /\ arg' = [arg EXCEPT ![i] = [sessionID |-> sessionID, signature |-> ""]]
            /\ UNCHANGED ret
    /\ UNCHANGED <<store, now, outsideStore, entryRead>>

\* lines 137-147: the lookup, the expiry check and the deferred RUnlock
GetReturn(i) ==
    /\ pc[i] = "get_read"
    /\ ret' = [op |-> "get", sessionID |-> arg[i].sessionID,
               value |-> GetSignatureForSession(Lookup(store, arg[i].sessionID), now),
               outcome |-> "", panicked |-> FALSE]
    /\ mu' = [mu EXCEPT !.readers = @ \ {i}]
    /\ pc' = [pc EXCEPT ![i] = "idle"]
    /\ arg' = [arg EXCEPT ![i] = NoArg]
    /\ UNCHANGED <<store, now, outsideStore, entryRead>>

\* ClearSignatureForSession, lines 152-157: the early return, else mu.Lock()
ClearCall(i, sessionID) ==
    /\ pc[i] = "idle"
    /\ IF sessionID = ""
       THEN /\ ret' = [op |-> "clear", sessionID |-> "", value |-> "",
                       outcome |-> "skipped", panicked |-> FALSE]
            /\ UNCHANGED <<mu, pc, arg>>
       ELSE /\ CanLock(mu)
            /\ mu' = [mu EXCEPT !.writer = i]
            /\ pc' = [pc EXCEPT ![i] = "clear_delete"]
            /\ arg' = [arg EXCEPT ![i] = [sessionID |-> sessionID, signature |-> ""]]
            /\ UNCHANGED ret
    /\ UNCHANGED <<store, now, outsideStore, entryRead>>

\* lines 159-161: delete, the log line and the deferred Unlock
ClearDelete(i) ==
    /\ pc[i] = "clear_delete"
    /\ store' = [s \in DOMAIN store \ {arg[i].sessionID} |-> store[s]]
    /\ ret' = [op |-> "clear", sessionID |-> arg[i].sessionID, value |-> "",
               outcome |-> "",
               panicked |-> SlicePanics(arg[i].sessionID)]
    /\ mu' = [mu EXCEPT !.writer = IF mu.writer = i THEN "none" ELSE mu.writer]
    /\ pc' = [pc EXCEPT ![i] = "idle"]
    /\ arg' = [arg EXCEPT ![i] = NoArg]
    /\ UNCHANGED <<now, outsideStore, entryRead>>

\* The ticker fires (lines 38-41) and cleanup() calls s.mu.Lock() (line 165), which
\* waits for the goroutines that hold the lock.
SweepLock ==
    /\ ~mu.pending
    /\ mu' = [mu EXCEPT !.pending = TRUE]
    /\ UNCHANGED <<store, now, outsideStore, pc, arg, entryRead, ret>>

\* The sweeper goroutine (lines 36-42) runs cleanup() under the write lock.
Sweep ==
    /\ mu.writer = "none" /\ mu.readers = {}
    /\ store' = cleanup(store, now)
    /\ mu' = [mu EXCEPT !.pending = FALSE]
    /\ UNCHANGED <<now, outsideStore, pc, arg, entryRead, ret>>

\* Time passes, half a TTL at a time.
Tick ==
    /\ now + 3 * cleanupInterval <= MaxTime
    /\ now' = now + 3 * cleanupInterval
    /\ UNCHANGED <<store, mu, outsideStore, pc, arg, entryRead, ret>>

-----------------------------------------------------------------------------
(* Spec: the signature store with its callers, its clock and its sweeper *)

SessionIdle ==
    /\ globalThoughtSignature = ""
    /\ build = "legacy"
    /\ filterRet = NoFilterRet

FingerprintIdle ==
    /\ conversation = <<>>
    /\ sent = FALSE
    /\ sessionIDs = <<>>

\* No request was handed to an adapter
NoSource == [dialect |-> "", messages |-> <<>>]

AdapterIdle ==
    /\ transcoder = ""
    /\ source = NoSource
    /\ emitted = <<>>
    /\ nanos = 1
    /\ schema = JNull
    /\ sanitized = <<>>
    /\ finished = <<>>

ProxyIdle ==
    /\ config = [RedirectEnabled |-> FALSE, RedirectKeyword |-> "proxy_auto",
                 RedirectTargetModel |-> ""]
    /\ request = NoRequest
    /\ proxyPc = "idle"
    /\ local = NoLocal
    /\ dispatches = <<>>
    /\ answers = <<>>
    /\ clientResp = NoResponse
    /\ usageLog = <<>>
    /\ update = NoUpdate
    /\ configSeen = <<>>
    /\ versions = {}

StreamIdle ==
    /\ adapterName = ""
    /\ upstream = <<>>
    /\ scanned = 0
    /\ writer = <<>>
    /\ streamRet = "idle"
    /\ streamLog = <<>>
    /\ connected = TRUE
    /\ failedAt = 0

Init ==
    /\ StoreInit
    /\ SessionIdle
    /\ FingerprintIdle
    /\ AdapterIdle
    /\ StreamIdle
    /\ ProxyIdle

NoHistory == UNCHANGED <<offered, epoch>>

Next ==
    \/ \E i \in Callers, s \in SessionIDs \cup {""}, g \in Signatures \cup {""} :
          StoreCall(i, s, g) /\ NoHistory
    \/ \E i \in Callers : StoreRead(i) /\ NoHistory
    \/ \E i \in Callers : StoreWrite(i) /\ NoHistory
    \/ \E i \in Callers, s \in SessionIDs \cup {""} : GetCall(i, s) /\ NoHistory
    \/ \E i \in Callers : GetReturn(i) /\ NoHistory
    \/ \E i \in Callers, s \in SessionIDs \cup {""} : ClearCall(i, s) /\ NoHistory
    \/ \E i \in Callers : ClearDelete(i) /\ NoHistory
    \/ Sweep /\ NoHistory
    \/ Tick /\ NoHistory

Spec == Init /\ [][Next]_vars

\* A step of a call that holds the lock: the code from Lock() to the deferred
\* Unlock() is straight-line
HoldsLockStep ==
    \E i \in Callers :
        (StoreRead(i) \/ StoreWrite(i) \/ GetReturn(i) \/ ClearDelete(i)) /\ NoHistory

\* The store with the sweeper's ticker: the pass first waits for the lock.
NextSweep ==
    \/ \E i \in Callers, s \in SessionIDs, g \in Signatures :
          StoreCall(i, s, g) /\ NoHistory
    \/ \E i \in Callers : StoreRead(i) /\ NoHistory
    \/ \E i \in Callers : StoreWrite(i) /\ NoHistory
    \/ \E i \in Callers, s \in SessionIDs : GetCall(i, s) /\ NoHistory
    \/ \E i \in Callers : GetReturn(i) /\ NoHistory
    \/ \E i \in Callers, s \in SessionIDs : ClearCall(i, s) /\ NoHistory
    \/ \E i \in Callers : ClearDelete(i) /\ NoHistory
    \/ SweepLock /\ NoHistory
    \/ mu.pending /\ Sweep /\ NoHistory
    \/ Tick /\ NoHistory

\* The ticker of init() (lines 36-42) fires every 10 minutes for as long as the
\* process runs, a goroutine that holds the lock runs on to its Unlock(), and the
\* sweeper's Lock() returns once the lock is free.
SpecSweep ==
    /\ Init
    /\ [][NextSweep]_vars
    /\ WF_vars(HoldsLockStep)
    /\ WF_vars(SweepLock /\ NoHistory)
    /\ WF_vars(mu.pending /\ Sweep /\ NoHistory)

-----------------------------------------------------------------------------
(* SpecRace: the same calls, observed for the fingerprint FA *)

\* A store call for FA completed.
ObserveStore(i) ==
    IF arg[i].sessionID = FA
    THEN /\ offered' = offered \cup {arg[i].signature}
         /\ epoch' = IF epoch = "none" THEN "open" ELSE epoch
    ELSE NoHistory

\* A clear call for FA completed.
ObserveClear(i) ==
    IF arg[i].sessionID = FA
    THEN /\ epoch' = IF epoch = "none" THEN "none" ELSE "closed"
         /\ UNCHANGED offered
    ELSE NoHistory

\* The clock moved.
ObserveTick ==
    /\ epoch' = IF epoch = "none" THEN "none" ELSE "closed"
    /\ UNCHANGED offered

NextRace ==
    \/ \E i \in Callers, s \in SessionIDs, g \in Signatures :
          StoreCall(i, s, g) /\ NoHistory
    \/ \E i \in Callers : StoreRead(i) /\ NoHistory
    \/ \E i \in Callers : StoreWrite(i) /\ ObserveStore(i)
    \/ \E i \in Callers, s \in SessionIDs : GetCall(i, s) /\ NoHistory
    \/ \E i \in Callers : GetReturn(i) /\ NoHistory
    \/ \E i \in Callers, s \in SessionIDs : ClearCall(i, s) /\ NoHistory
    \/ \E i \in Callers : ClearDelete(i) /\ ObserveClear(i)
    \/ Sweep /\ NoHistory
    \/ Tick /\ ObserveTick

SpecRace == Init /\ [][NextRace]_vars

-----------------------------------------------------------------------------
(* SpecSession: requests of two conversations served through the cursor adapter *)

Conversations == {FA, FB}

\* The signatures the upstream issues to each conversation
UpstreamSignatures(conv) == IF conv = FA THEN {S1, S2} ELSE {S1b}

\* The blocks a client of the conversation sends back in its history
InputBlocks(conv) ==
    {ThinkingBlock("plan", SShort), ThinkingBlock(" ", ""), ThinkingBlock("", SShort),
     ToolUseBlock,
     [TextBlock("hi") EXCEPT !.cache_control = TRUE]}
    \cup {ThinkingBlock("plan", sig) : sig \in UpstreamSignatures(conv)}

\* The message lists of the requests: a user turn, then a turn with block content
Histories(conv) ==
    {<<[role |-> "user", kind |-> "string", text |-> "hi", content |-> <<>>],
       [role |-> r, kind |-> "list", text |-> "", content |-> c]>> :
        r \in {"assistant", "model", "user"},
        c \in UNION {[1..k -> InputBlocks(conv)] : k \in 0..MaxBlocks}}

InitSession ==
    /\ StoreInit
    /\ globalThoughtSignature = ""
    /\ build \in {"legacy", "shim"}
    /\ filterRet = NoFilterRet
    /\ FingerprintIdle
    /\ AdapterIdle
    /\ StreamIdle
    /\ ProxyIdle

\* StoreThoughtSignature(sig) as linked. In the shim the entry is written at
\* signature_store.go:119 before sessionID[:8] panics on "default" at line 124.
StoreThoughtSignature(sig) ==
    IF build = "legacy"
    THEN /\ globalThoughtSignature' = StoreThoughtSignatureGlobal(globalThoughtSignature, sig)
         /\ UNCHANGED store
    ELSE /\ store' = StoreThoughtSignatureShim(store, sig, now)
         /\ UNCHANGED globalThoughtSignature

\* CursorAdapter.AdaptStreamChunk, lines 445-459, on a chunk of conv's stream whose
\* delta carries a signature
CursorAdaptStreamChunk(conv, sig) ==
    /\ filterRet = NoFilterRet
    /\ StoreThoughtSignature(sig)
    /\ UNCHANGED <<mu, now, pc, arg, entryRead, ret, offered, epoch, build, filterRet,
                   fingerprintVars, adapterVars, streamVars, proxyVars>>

\* CursorAdapter.convertAssistantMessage, lines 354-362, on a thinking block of
\* conv's request
CursorConvertAssistantMessage(conv, block) ==
    /\ filterRet = NoFilterRet
    /\ block.type = "thinking"
    /\ StoreThoughtSignature(block.signature)
    /\ UNCHANGED <<mu, now, pc, arg, entryRead, ret, offered, epoch, build, filterRet,
                   fingerprintVars, adapterVars, streamVars, proxyVars>>

\* ClearThoughtSignature as linked: cursor_adapter.go lines 42-46 or
\* signature_store.go lines 213-215
ClearThoughtSignature ==
    /\ filterRet = NoFilterRet
    /\ IF build = "legacy"
       THEN globalThoughtSignature' = "" /\ UNCHANGED store
       ELSE /\ store' = [s \in DOMAIN store \ {defaultSessionID} |-> store[s]]
            /\ UNCHANGED globalThoughtSignature
    /\ UNCHANGED <<mu, now, pc, arg, entryRead, ret, offered, epoch, build, filterRet,
                   fingerprintVars, adapterVars, streamVars, proxyVars>>

\* FilterInvalidThinkingBlocks(messages) on a request of conv
FilterCall(conv, messages) ==
    /\ filterRet = NoFilterRet
    /\ filterRet' = [conv |-> conv, input |-> messages, globalSig |-> GetThoughtSignature,
                     output |-> FilterInvalidThinkingBlocks(messages, GetThoughtSignature),
                     totalFiltered |-> totalFiltered(messages, GetThoughtSignature)]
    /\ UNCHANGED <<storeVars, globalThoughtSignature, build, fingerprintVars, adapterVars, streamVars, proxyVars>>

\* The caller takes the result and goes on.
FilterReturn ==
    /\ filterRet # NoFilterRet
    /\ filterRet' = NoFilterRet
    /\ UNCHANGED <<storeVars, globalThoughtSignature, build, fingerprintVars, adapterVars, streamVars, proxyVars>>

NextSession ==
    \/ \E conv \in Conversations : \E sig \in UpstreamSignatures(conv) :
          CursorAdaptStreamChunk(conv, sig)
    \/ \E conv \in Conversations : \E block \in InputBlocks(conv) :
          CursorConvertAssistantMessage(conv, block)
    \/ ClearThoughtSignature
    \/ \E conv \in Conversations : \E messages \in Histories(conv) :
          FilterCall(conv, messages)
    \/ FilterReturn
    \/ filterRet = NoFilterRet /\ Sweep /\ NoHistory
    \/ filterRet = NoFilterRet /\ Tick /\ NoHistory

SpecSession == InitSession /\ [][NextSession]_vars

-----------------------------------------------------------------------------
(* SpecFingerprint: one conversation growing turn by turn *)

UserMessages ==
    {[role |-> "user", kind |-> "string", text |-> t, content |-> <<>>] :
        t \in {"hi", LongText}}

AssistantMessages ==
    {[role |-> "assistant", kind |-> "string", text |-> "ok", content |-> <<>>],
     [role |-> "assistant", kind |-> "list", text |-> "",
      content |-> <<ThinkingBlock("plan", S1), TextBlock("ok")>>],
     [role |-> "assistant", kind |-> "list", text |-> "", content |-> <<ToolUseBlock>>]}

\* The client adds its next message to the conversation.
UserTurn(msg) ==
    /\ Len(conversation) < MaxTurns
    /\ Len(conversation) % 2 = 0
    /\ conversation' = Append(conversation, msg)
    /\ sent' = FALSE
    /\ UNCHANGED <<sessionIDs, storeVars, sessionVars, streamVars, proxyVars, adapterVars>>

\* The client sends the list as a request; the proxy fingerprints it.
FingerprintRequest ==
    /\ ~sent
    /\ sessionIDs' = Append(sessionIDs, GenerateSessionID(conversation))
    /\ sent' = TRUE
    /\ UNCHANGED <<conversation, storeVars, sessionVars, streamVars, proxyVars, adapterVars>>

\* The answer joins the conversation.
AssistantTurn(msg) ==
    /\ sent
    /\ Len(conversation) < MaxTurns
    /\ Len(conversation) % 2 = 1
    /\ conversation' = Append(conversation, msg)
    /\ UNCHANGED <<sent, sessionIDs, storeVars, sessionVars, streamVars, proxyVars,
                   adapterVars>>

NextFingerprint ==
    \/ \E msg \in UserMessages : UserTurn(msg)
    \/ FingerprintRequest
    \/ \E msg \in AssistantMessages : AssistantTurn(msg)

SpecFingerprint == Init /\ [][NextFingerprint]_vars

-----------------------------------------------------------------------------
(* SpecStream: one streaming response relayed to the client *)

\* The fingerprint of the request whose response is streamed
RequestFingerprint == FA

\* The names ProxyStreamRequest's detectAdapter returns ("anthropic", "deepseek",
\* "" for none) and two more names of the registry that convert streams; gemini
\* streams are not modelled.
StreamAdapters == {"", "anthropic", "deepseek", "cursor", "openai-to-claude"}

RECURSIVE Repeat(_, _)
Repeat(x, n) == IF n = 0 THEN <<>> ELSE <<x>> \o Repeat(x, n - 1)

\* An Anthropic upstream's data lines
AnthropicStream(withThinking, n, stop_reason) ==
    LET first == IF withThinking THEN 1 ELSE 0
    IN  <<MessageStart>>
        \o (IF withThinking
            THEN <<ContentBlockStart(0, "thinking"), ThinkingDelta(0, "because"),
                   SignatureDelta(0, S1), ContentBlockStop(0)>>
            ELSE <<>>)
        \o <<ContentBlockStart(first, "text")>>
        \o Repeat(TextDelta(first, "done"), n)
        \o <<ContentBlockStop(first), MessageDelta(stop_reason), MessageStop>>

\* An OpenAI-compatible upstream's data lines
OpenAIStream(withSignature, n, finish_reason) ==
    <<OpenAIChunk("assistant", "", "", "")>>
    \o (IF withSignature THEN <<OpenAIChunk("", "", S1, "")>> ELSE <<>>)
    \o Repeat(OpenAIChunk("", "done", "", ""), n)
    \o <<OpenAIChunk("", "", "", finish_reason), DoneLine>>

\* What the upstream behind each adapter sends: buildAdapterURL posts to /v1/messages
\* for "anthropic" and to /v1/chat/completions otherwise.
UpstreamStreams(name) ==
    IF name = "anthropic"
    THEN {AnthropicStream(t, n, r) :
            t \in BOOLEAN, n \in 1..MaxDeltas, r \in {"end_turn", "max_tokens", "tool_use"}}
    ELSE {OpenAIStream(g, n, f) :
            g \in BOOLEAN, n \in 1..MaxDeltas, f \in {"stop", "length"}}

\* An adapter's stream that opens with the adapter's AdaptStreamStart events.
StreamPrologueWithStart(name) ==
    IF name = "openai-to-claude" THEN OpenAIToClaudeAdaptStreamStart ELSE <<>>

\* streamWithAdapter, lines 266-275, and streamDirect, lines 326-327: what is written
\* before the first line is read
StreamPrologue(name) == <<>>

InitStream ==
    /\ StoreInit
    /\ globalThoughtSignature = ""
    /\ build \in {"legacy", "shim"}
    /\ filterRet = NoFilterRet
    /\ FingerprintIdle
    /\ AdapterIdle
    /\ adapterName \in StreamAdapters
    /\ upstream \in UpstreamStreams(adapterName)
    /\ scanned = 0
    /\ writer = StreamPrologue(adapterName)
    /\ streamRet = "running"
    /\ streamLog = <<>>
    /\ connected = TRUE
    /\ failedAt = 0
    /\ ProxyIdle

\* fmt.Fprintf(writer, ...) of streamWithAdapter, lines 289 and 311: the error it
\* returns when the client is gone is discarded
ClientWrite(event) ==
    IF connected
    THEN writer' = Append(writer, event) /\ UNCHANGED failedAt
    ELSE /\ UNCHANGED writer
         /\ failedAt' = IF failedAt = 0 THEN scanned + 1 ELSE failedAt

\* The client closes its connection while the response is streamed.
ClientDisconnect ==
    /\ streamRet = "running" /\ connected
    /\ connected' = FALSE
    /\ UNCHANGED <<storeVars, sessionVars, fingerprintVars, adapterVars, proxyVars, adapterName, upstream,
                   scanned, writer, streamRet, streamLog, failedAt>>

\* streamWithAdapter, lines 294-312: a data line that is a JSON chunk
StreamWithAdapterChunk ==
    /\ streamRet = "running" /\ adapterName # ""
    /\ scanned < Len(upstream)
    /\ upstream[scanned + 1] # DoneLine
    /\ StoreThoughtSignature(CursorChunkSignature(adapterName, upstream[scanned + 1]))
    /\ ClientWrite(AdaptStreamChunk(adapterName, upstream[scanned + 1]))
    /\ scanned' = scanned + 1
    /\ UNCHANGED <<mu, now, pc, arg, entryRead, ret, offered, epoch, build, filterRet,
                   fingerprintVars, adapterVars, adapterName, upstream, streamRet, streamLog, connected,
                   proxyVars>>

\* lines 287-292: the line "data: [DONE]"
StreamWithAdapterDone ==
    /\ streamRet = "running" /\ adapterName # ""
    /\ scanned < Len(upstream)
    /\ upstream[scanned + 1] = DoneLine
    /\ ClientWrite(DoneLine)
    /\ scanned' = scanned + 1
    /\ streamLog' = Append(streamLog, TRUE)
    /\ streamRet' = "nil"
    /\ UNCHANGED <<storeVars, sessionVars, fingerprintVars, adapterVars, proxyVars, adapterName, upstream,
                   connected>>

\* lines 279-283, 285 and 296-299: an empty line, a line without "data: " or a
\* line that is not JSON is passed over
StreamWithAdapterSkip ==
    /\ streamRet = "running" /\ adapterName # ""
    /\ scanned < Len(upstream)
    /\ UNCHANGED vars

\* lines 313-321: the scanner stops on a read error
StreamWithAdapterError ==
    /\ streamRet = "running" /\ adapterName # ""
    /\ scanned < Len(upstream)
    /\ streamLog' = Append(streamLog, FALSE)
    /\ streamRet' = "error"
    /\ UNCHANGED <<storeVars, sessionVars, fingerprintVars, adapterVars, proxyVars, adapterName, upstream,
                   scanned, writer, connected, failedAt>>

\* lines 313-322: the scanner stops at the end of the body
StreamWithAdapterEOF ==
    /\ streamRet = "running" /\ adapterName # ""
    /\ scanned = Len(upstream)
    /\ streamLog' = Append(streamLog, TRUE)
    /\ streamRet' = "nil"
    /\ UNCHANGED <<storeVars, sessionVars, fingerprintVars, adapterVars, proxyVars, adapterName, upstream,
                   scanned, writer, connected, failedAt>>

\* streamDirect, lines 329-336: bytes read are written as they are
StreamDirectRead ==
    /\ streamRet = "running" /\ adapterName = ""
    /\ scanned < Len(upstream)
    /\ connected
    /\ writer' = Append(writer, upstream[scanned + 1])
    /\ scanned' = scanned + 1
    /\ UNCHANGED <<storeVars, sessionVars, fingerprintVars, adapterVars, proxyVars, adapterName, upstream,
                   streamRet, streamLog, connected, failedAt>>

\* lines 331-334: the write to the client fails
StreamDirectWriteError ==
    /\ streamRet = "running" /\ adapterName = ""
    /\ scanned < Len(upstream)
    /\ ~connected
    /\ scanned' = scanned + 1
    /\ failedAt' = scanned + 1
    /\ streamLog' = Append(streamLog, FALSE)
    /\ streamRet' = "error"
    /\ UNCHANGED <<storeVars, sessionVars, fingerprintVars, adapterVars, proxyVars, adapterName, upstream,
                   writer, connected>>

\* lines 337-341: io.EOF
StreamDirectEOF ==
    /\ streamRet = "running" /\ adapterName = ""
    /\ scanned = Len(upstream)
    /\ streamLog' = Append(streamLog, TRUE)
    /\ streamRet' = "nil"
    /\ UNCHANGED <<storeVars, sessionVars, fingerprintVars, adapterVars, proxyVars, adapterName, upstream,
                   scanned, writer, connected, failedAt>>

\* lines 342-343: any other read error
StreamDirectReadError ==
    /\ streamRet = "running" /\ adapterName = ""
    /\ scanned < Len(upstream)
    /\ streamLog' = Append(streamLog, FALSE)
    /\ streamRet' = "error"
    /\ UNCHANGED <<storeVars, sessionVars, fingerprintVars, adapterVars, proxyVars, adapterName, upstream,
                   scanned, writer, connected, failedAt>>

NextStream ==
    \/ ClientDisconnect
    \/ StreamWithAdapterChunk
    \/ StreamWithAdapterDone
    \/ StreamWithAdapterSkip
    \/ StreamWithAdapterError
    \/ StreamWithAdapterEOF
    \/ StreamDirectRead
    \/ StreamDirectWriteError
    \/ StreamDirectEOF
    \/ StreamDirectReadError

SpecStream == InitStream /\ [][NextStream]_vars

-----------------------------------------------------------------------------
(* SpecProxy: one request through the router's proxyHandler, served by           *)
(* ProxyService.ProxyRequest or ProxyService.ProxyStreamRequest, while            *)
(* App.UpdateConfig may run in another goroutine                                 *)

\* The rows of the table model_routes: two enabled routes for gpt-4, one enabled
\* and one disabled for claude-3, a disabled one only for llama
ModelRoutes ==
    {[ID |-> 1, Model |-> "gpt-4", APIUrl |-> "https://api.openai.example",
      APIKey |-> "sk-1", Enabled |-> TRUE],
     [ID |-> 2, Model |-> "gpt-4", APIUrl |-> "https://relay.example",
      APIKey |-> "", Enabled |-> TRUE],
     [ID |-> 3, Model |-> "claude-3", APIUrl |-> "https://api.anthropic.example",
      APIKey |-> "sk-3", Enabled |-> TRUE],
     [ID |-> 4, Model |-> "claude-3", APIUrl |-> "https://old.anthropic.example",
      APIKey |-> "sk-4", Enabled |-> FALSE],
     [ID |-> 5, Model |-> "llama", APIUrl |-> "https://llama.example",
      APIKey |-> "", Enabled |-> FALSE]}

\* The enabled rows of the route table
Routes == {r \in ModelRoutes : r.Enabled}

RouteByID(id) == CHOOSE r \in ModelRoutes : r.ID = id

\* A lookup by model name alone.
GetRouteByModelAnyRow(model) == {r \in ModelRoutes : r.Model = model}

\* RouteService.GetRouteByModel, route_service.go lines 47-63: the rows it may return
\* (WHERE model = ? AND enabled = 1 ORDER BY RANDOM() LIMIT 1)
GetRouteByModel(model) == {r \in ModelRoutes : r.Model = model /\ r.Enabled}

\* RouteService.GetAvailableModels, route_service.go lines 213-232 (WHERE enabled = 1)
GetAvailableModels == {r.Model : r \in Routes}

\* ProxyService.detectAdapter, lines 406-421, on the URLs and models of the model
detectAdapter(apiUrl, model) ==
    IF apiUrl = "https://api.anthropic.example" \/ model = "claude-3" THEN "anthropic"
    ELSE ""

\* ProxyService.buildAdapterURL, lines 424-433
buildAdapterURL(baseURL, name) ==
    IF name = "anthropic" THEN baseURL \o "/v1/messages"
    ELSE IF name = "gemini" THEN baseURL \o "/v1beta/models"
    ELSE baseURL \o "/v1/chat/completions"

Configs ==
    [RedirectEnabled : BOOLEAN, RedirectKeyword : {"proxy_auto"},
     RedirectTargetModel : {"", "claude-3", "proxy_auto"}]

Requests ==
    {NoRequest}
    \cup {r \in [json : {TRUE}, stream : BOOLEAN,
                  model : {"", "gpt-4", "claude-3", "proxy_auto", "llama"},
                  auth : {"", "Bearer client"}, hasThinking : BOOLEAN,
                  reasoning : BOOLEAN] :
             r.reasoning = r.hasThinking}

\* What the upstream may answer to a dispatch
Answers ==
    {[status |-> 200, body |-> "usage"], [status |-> 200, body |-> "no usage"],
     [status |-> 200, body |-> "usage without total_tokens"],
     [status |-> 400, body |-> "thought_signature invalid"],
     [status |-> 500, body |-> "internal error"],
     [status |-> 0, body |-> "connection refused"]}

\* lines 50-61 and 177-185: the model after the redirect keyword is resolved
RedirectedModel(cfg, model) ==
    IF cfg.RedirectEnabled /\ model = cfg.RedirectKeyword THEN cfg.RedirectTargetModel
    ELSE model

\* lines 51-56 and 178-182: the fields of s.config these lines read (&& evaluates
\* its right operand only when the left one is true)
FieldsReadForRedirect(cfg, model) ==
    {"RedirectEnabled"}
    \cup (IF cfg.RedirectEnabled THEN {"RedirectKeyword"} ELSE {})
    \cup (IF cfg.RedirectEnabled /\ model = cfg.RedirectKeyword
          THEN {"RedirectTargetModel"} ELSE {})

\* line 79: the fields of s.config read for the request adaptation
FieldsReadForRequest(cfg, name) ==
    (IF name # "" THEN {"RedirectEnabled"} ELSE {})
    \cup (IF name # "" /\ cfg.RedirectEnabled THEN {"RedirectKeyword"} ELSE {})

\* line 146: the fields of s.config read for the response adaptation
FieldsReadForResponse(cfg, name) == IF name # "" THEN {"RedirectEnabled"} ELSE {}

\* A read of s.config at a line: the fields read and the values they held
ConfigRead(line, cfg, fields) ==
    [line |-> line, fields |-> fields,
     values |-> [f \in DOMAIN cfg |-> IF f \in fields THEN cfg[f] ELSE NoUpdate.new[f]]]

\* The client's Authorization passed through whatever the route holds.
UpstreamAuthorizationPassThrough(route, auth) == auth

\* lines 106-111 and 232-236: the Authorization header of the upstream request
\* ("" when none is set)
UpstreamAuthorization(route, auth) ==
    IF route.APIKey # "" THEN "Bearer " \o route.APIKey ELSE auth

\* lines 77-111 and 196-241: the request sent to the route. In ProxyRequest reqData["model"]
\* holds the local model at line 79, redirected or not.
Dispatch(cfg, req, loc) ==
    LET route == RouteByID(loc.routeID)
        adapt == IF req.stream THEN loc.adapterName # ""
                 ELSE /\ loc.adapterName # ""
                      /\ cfg.RedirectEnabled
                      /\ loc.model = cfg.RedirectKeyword
    IN  [model |-> loc.model, routeID |-> loc.routeID, adapted |-> adapt,
         url |-> IF adapt THEN buildAdapterURL(route.APIUrl, loc.adapterName)
                 ELSE route.APIUrl \o "/v1/chat/completions",
         auth |-> UpstreamAuthorization(route, req.auth),
         hasThinking |-> req.hasThinking, reasoning |-> req.reasoning]

InitProxy ==
    /\ StoreInit
    /\ SessionIdle
    /\ FingerprintIdle
    /\ AdapterIdle
    /\ StreamIdle
    /\ config \in Configs
    /\ request = NoRequest
    /\ proxyPc = "idle"
    /\ local = NoLocal
    /\ dispatches = <<>>
    /\ answers = <<>>
    /\ clientResp = NoResponse
    /\ usageLog = <<>>
    /\ update = NoUpdate
    /\ configSeen = <<>>
    /\ versions = {config}

\* What no step of the request handler touches
outsideHandler == <<storeVars, sessionVars, fingerprintVars, adapterVars, streamVars, config, update, versions>>

\* c.JSON(statusCode, gin.H{"error": ...}), router.go lines 117-125
ErrorResponse(status, body, models) ==
    [status |-> status, body |-> body, adapted |-> FALSE, models |-> models]

\* router.go lines 107-111: ProxyStreamRequest returned; its error, if any, is only
\* logged, and gin sends the status it holds (200) with what was written so far
StreamResponse(body) == [status |-> 200, body |-> body, adapted |-> FALSE, models |-> {}]

\* ProxyRequest, lines 37-68: the request is refused before any route is used
ProxyRequestRefuse(req) ==
    /\ proxyPc = "idle" /\ ~req.stream
    /\ request' = req
    /\ \/ /\ ~req.json \/ req.model = ""
          /\ clientResp' = ErrorResponse(400, "bad request", {})
          /\ UNCHANGED <<local, configSeen>>
       \/ /\ req.json /\ req.model # ""
          /\ config.RedirectEnabled /\ req.model = config.RedirectKeyword
          /\ config.RedirectTargetModel = ""
          /\ clientResp' = ErrorResponse(404, "redirect target model not configured", {})
          /\ configSeen' = Append(configSeen,
                ConfigRead(51, config, FieldsReadForRedirect(config, req.model)))
          /\ UNCHANGED local
       \/ /\ req.json /\ req.model # ""
          /\ ~(config.RedirectEnabled /\ req.model = config.RedirectKeyword
               /\ config.RedirectTargetModel = "")
          /\ GetRouteByModel(RedirectedModel(config, req.model)) = {}
          /\ local' = [NoLocal EXCEPT !.model = RedirectedModel(config, req.model)]
          /\ clientResp' = ErrorResponse(404, "model not found in route list",
                                         GetAvailableModels)
          /\ configSeen' = Append(configSeen,
                ConfigRead(51, config, FieldsReadForRedirect(config, req.model)))
    /\ proxyPc' = "returned"
    /\ UNCHANGED <<outsideHandler, dispatches, answers, usageLog>>

\* ProxyRequest, lines 37-78: the redirect is resolved and a route is found
ProxyRequestRoute(req, route) ==
    /\ proxyPc = "idle" /\ ~req.stream
    /\ req.json /\ req.model # ""
    /\ ~(config.RedirectEnabled /\ req.model = config.RedirectKeyword
         /\ config.RedirectTargetModel = "")
    /\ route \in GetRouteByModel(RedirectedModel(config, req.model))
    /\ request' = req
    /\ local' = [model |-> RedirectedModel(config, req.model), routeID |-> route.ID,
                 adapterName |-> detectAdapter(route.APIUrl,
                                               RedirectedModel(config, req.model))]
    /\ configSeen' = Append(configSeen,
          ConfigRead(51, config, FieldsReadForRedirect(config, req.model)))
    /\ proxyPc' = "routed"
    /\ UNCHANGED <<outsideHandler, dispatches, answers, clientResp, usageLog>>

\* ProxyRequest, lines 79-115: the request is built and sent with httpClient.Do
ProxyRequestSend ==
    /\ proxyPc = "routed" /\ ~request.stream
    /\ dispatches' = Append(dispatches, Dispatch(config, request, local))
    /\ configSeen' =
         IF FieldsReadForRequest(config, local.adapterName) = {} THEN configSeen
         ELSE Append(configSeen,
                ConfigRead(79, config, FieldsReadForRequest(config, local.adapterName)))
    /\ proxyPc' = "waiting"
    /\ UNCHANGED <<outsideHandler, request, local, answers, clientResp, usageLog>>

\* The usage row LogRequest(model, route.ID, ...) writes
LogRow(model, success, tokens, error) ==
    [model |-> model, routeID |-> local.routeID,
     tokens |-> tokens, success |-> success, error |-> error]

\* ProxyRequest, lines 115-160: the upstream's answer is logged and returned. A
\* usage object without total_tokens fails the type assertion of line 135; gin's
\* Recovery answers 500.
ProxyRequestReturn(answer) ==
    /\ proxyPc = "waiting" /\ ~request.stream
    /\ answers' = Append(answers, answer)
    /\ LET adapt == local.adapterName # "" /\ config.RedirectEnabled
       IN  IF answer.status = 0
           THEN /\ usageLog' = Append(usageLog, LogRow(local.model, FALSE, 0, answer.body))
                /\ clientResp' = ErrorResponse(503, "backend service unavailable", {})
                /\ proxyPc' = "returned"
                /\ UNCHANGED configSeen
           ELSE IF answer.status = 200 /\ answer.body = "usage without total_tokens"
           THEN /\ proxyPc' = "panicked"
                /\ clientResp' = ErrorResponse(500, "", {})
                /\ UNCHANGED <<usageLog, configSeen>>
           ELSE /\ usageLog' =
                     IF answer.status # 200
                     THEN Append(usageLog, LogRow(local.model, FALSE, 0, answer.body))
                     ELSE IF answer.body = "usage"
                     THEN Append(usageLog, LogRow(local.model, TRUE, 1, ""))
                     ELSE usageLog
                /\ clientResp' = [status |-> answer.status, body |-> answer.body,
                                  adapted |-> adapt, models |-> {}]
                /\ configSeen' =
                     IF FieldsReadForResponse(config, local.adapterName) = {}
                     THEN configSeen
                     ELSE Append(configSeen,
                            ConfigRead(146, config,
                                       FieldsReadForResponse(config, local.adapterName)))
                /\ proxyPc' = "returned"
    /\ UNCHANGED <<outsideHandler, request, local, dispatches>>

\* ProxyStreamRequest, lines 164-191: it returns an error before any route is used
ProxyStreamRequestRefuse(req) ==
    /\ proxyPc = "idle" /\ req.stream
    /\ request' = req
    /\ \/ /\ req.model = ""
          /\ UNCHANGED <<local, configSeen>>
       \/ /\ req.model # ""
          /\ config.RedirectEnabled /\ req.model = config.RedirectKeyword
          /\ config.RedirectTargetModel = ""
          /\ configSeen' = Append(configSeen,
                ConfigRead(178, config, FieldsReadForRedirect(config, req.model)))
          /\ UNCHANGED local
       \/ /\ req.model # ""
          /\ ~(config.RedirectEnabled /\ req.model = config.RedirectKeyword
               /\ config.RedirectTargetModel = "")
          /\ GetRouteByModel(RedirectedModel(config, req.model)) = {}
          /\ local' = [NoLocal EXCEPT !.model = RedirectedModel(config, req.model)]
          /\ configSeen' = Append(configSeen,
                ConfigRead(178, config, FieldsReadForRedirect(config, req.model)))
    /\ clientResp' = StreamResponse("")
    /\ proxyPc' = "returned"
    /\ UNCHANGED <<outsideHandler, dispatches, answers, usageLog>>

\* ProxyStreamRequest, lines 164-244: the request is routed and sent
ProxyStreamRequestSend(req, route) ==
    /\ proxyPc = "idle" /\ req.stream
    /\ req.model # ""
    /\ ~(config.RedirectEnabled /\ req.model = config.RedirectKeyword
         /\ config.RedirectTargetModel = "")
    /\ route \in GetRouteByModel(RedirectedModel(config, req.model))
    /\ request' = req
    /\ LET loc == [model |-> RedirectedModel(config, req.model), routeID |-> route.ID,
                   adapterName |-> detectAdapter(route.APIUrl,
                                                 RedirectedModel(config, req.model))]
       IN  /\ local' = loc
           /\ dispatches' = Append(dispatches, Dispatch(config, req, loc))
    /\ configSeen' = Append(configSeen,
          ConfigRead(178, config, FieldsReadForRedirect(config, req.model)))
    /\ proxyPc' = "waiting"
    /\ UNCHANGED <<outsideHandler, answers, clientResp, usageLog>>

\* ProxyStreamRequest, lines 244-262: httpClient.Do failed or the upstream answered
\* another status than 200, and the error is returned; or the relay begins
ProxyStreamRequestReturn(answer) ==
    /\ proxyPc = "waiting" /\ request.stream
    /\ answers' = Append(answers, answer)
    /\ IF answer.status = 200
       THEN proxyPc' = "relaying" /\ UNCHANGED clientResp
       ELSE proxyPc' = "returned" /\ clientResp' = StreamResponse("")
    /\ UNCHANGED <<outsideHandler, request, local, dispatches, usageLog, configSeen>>

\* streamWithAdapter, lines 266-323, and streamDirect, lines 326-346, as a whole: each
\* way out of the relay calls LogRequest once with the model the client named
ProxyStreamRelayEnd(success) ==
    /\ proxyPc = "relaying"
    /\ usageLog' = Append(usageLog,
          LogRow(request.model, success, 0, IF success THEN "" ELSE "stream error"))
    /\ clientResp' = StreamResponse("stream")
    /\ proxyPc' = "returned"
    /\ UNCHANGED <<outsideHandler, request, local, dispatches, answers, configSeen>>

\* What no step of UpdateConfig touches
outsideUpdate == <<storeVars, sessionVars, fingerprintVars, adapterVars, streamVars, request, proxyPc,
                   local, dispatches, answers, clientResp, usageLog, configSeen>>

\* App.UpdateConfig(redirectEnabled, redirectKeyword, redirectTargetModel) is called
UpdateConfigCall(new) ==
    /\ update.line = 0 /\ update.count < MaxUpdates
    /\ update' = [line |-> 222, count |-> update.count + 1, new |-> new]
    /\ versions' = versions \cup {new}
    /\ UNCHANGED <<outsideUpdate, config>>

\* main.go lines 222-225: the three assignments to the shared *config.Config, one
\* at a time and under no lock, then Save
UpdateConfigAssign ==
    /\ update.line # 0
    /\ \/ /\ update.line = 222
          /\ config' = [config EXCEPT !.RedirectEnabled = update.new.RedirectEnabled]
          /\ update' = [update EXCEPT !.line = 223]
       \/ /\ update.line = 223
          /\ config' = [config EXCEPT !.RedirectKeyword = update.new.RedirectKeyword]
          /\ update' = [update EXCEPT !.line = 224]
       \/ /\ update.line = 224
          /\ config' = [config EXCEPT !.RedirectTargetModel = update.new.RedirectTargetModel]
          /\ update' = [update EXCEPT !.line = 0, !.new = NoUpdate.new]
    /\ UNCHANGED <<outsideUpdate, versions>>

NextProxy ==
    \/ \E req \in Requests : ProxyRequestRefuse(req)
    \/ \E req \in Requests, route \in ModelRoutes : ProxyRequestRoute(req, route)
    \/ ProxyRequestSend
    \/ \E answer \in Answers : ProxyRequestReturn(answer)
    \/ \E req \in Requests : ProxyStreamRequestRefuse(req)
    \/ \E req \in Requests, route \in ModelRoutes : ProxyStreamRequestSend(req, route)
    \/ \E answer \in Answers : ProxyStreamRequestReturn(answer)
    \/ \E success \in BOOLEAN : ProxyStreamRelayEnd(success)
    \/ \E new \in Configs : UpdateConfigCall(new)
    \/ UpdateConfigAssign

SpecProxy == InitProxy /\ [][NextProxy]_vars

-----------------------------------------------------------------------------
(* SpecTranscode: one request with a tool call and its result through            *)
(* GeminiToOpenAIAdapter.AdaptRequest or OpenAIToClaudeAdapter.AdaptRequest       *)

\* A part of a Gemini content: text, a functionCall or a functionResponse
GeminiPart(kind, text, name) == [kind |-> kind, text |-> text, name |-> name]

GeminiContent(role, parts) == [role |-> role, parts |-> parts]

\* A message of an OpenAI request ("" and <<>> for the fields it lacks)
OpenAIMessage(role, content, tool_calls, tool_call_id) ==
    [role |-> role, content |-> content, tool_calls |-> tool_calls,
     tool_call_id |-> tool_call_id]

OpenAIToolCall(id, name) == [id |-> id, type |-> "function", name |-> name]

\* A content block of a Claude message
ClaudeBlock(type, text, id, name, tool_use_id) ==
    [type |-> type, text |-> text, id |-> id, name |-> name, tool_use_id |-> tool_use_id]

\* A message of a Claude request: its content is a string or a block list
ClaudeMessage(role, kind, text, content) ==
    [role |-> role, kind |-> kind, text |-> text, content |-> content]

ToolNames == {"read_file", "grep"}

\* Gemini requests: the model calls one or two functions, the user answers the first
GeminiRequests ==
    {[dialect |-> "gemini",
      messages |->
        <<GeminiContent("user", <<GeminiPart("text", "hi", "")>>),
          GeminiContent("model",
              (IF text = "" THEN <<>> ELSE <<GeminiPart("text", text, "")>>)
              \o <<GeminiPart("functionCall", "", name)>>
              \o (IF second = "" THEN <<>> ELSE <<GeminiPart("functionCall", "", second)>>)),
          GeminiContent("user", <<GeminiPart("functionResponse", "", name)>>)>>] :
        name \in ToolNames, text \in {"", "let me look"}, second \in ToolNames \cup {""}}

\* OpenAI requests: the assistant calls one or two tools, a tool message answers
\* the first
OpenAIRequests ==
    {[dialect |-> "openai",
      messages |->
        (IF system THEN <<OpenAIMessage("system", "be brief", <<>>, "")>> ELSE <<>>)
        \o <<OpenAIMessage("user", "hi", <<>>, ""),
             OpenAIMessage("assistant", text,
                 <<OpenAIToolCall(id, "read_file")>>
                 \o (IF second THEN <<OpenAIToolCall("call_2", "grep")>> ELSE <<>>), ""),
             OpenAIMessage("tool", "contents", <<>>, id)>>] :
        system \in BOOLEAN, text \in {"", "let me look"}, id \in {"call_abc", "toolu_01"},
        second \in BOOLEAN}

RECURSIVE textContent(_)
\* systray_windows.go lines 114-119: textContent += text over the parts
textContent(parts) ==
    IF parts = <<>> THEN ""
    ELSE (IF Head(parts).kind = "text" THEN Head(parts).text ELSE "")
         \o textContent(Tail(parts))

RECURSIVE toolCalls(_, _)
\* lines 121-139: one tool call per functionCall part, its id made of the clock
\* (read as t for the first call, one tick later for each next one) and the name
toolCalls(parts, t) ==
    IF parts = <<>> THEN <<>>
    ELSE IF Head(parts).kind = "functionCall"
    THEN <<OpenAIToolCall("call_" \o ToString(t) \o "_" \o Head(parts).name,
                          Head(parts).name)>>
         \o toolCalls(Tail(parts), t + 1)
    ELSE toolCalls(Tail(parts), t)

\* lines 141-144: the functionResponse parts (the last one is kept)
FunctionResponses(parts) ==
    {k \in DOMAIN parts : parts[k].kind = "functionResponse"}

\* lines 99-184: the message a content becomes
GeminiToOpenAIMessage(content, t) ==
    IF FunctionResponses(content.parts) # {}
    THEN LET k == CHOOSE k \in FunctionResponses(content.parts) :
                     \A j \in FunctionResponses(content.parts) : j <= k
         IN  OpenAIMessage("tool", "", <<>>, "call_" \o content.parts[k].name)
    ELSE OpenAIMessage(IF content.role = "model" THEN "assistant" ELSE content.role,
                       textContent(content.parts), toolCalls(content.parts, t), "")

RECURSIVE GeminiToOpenAIMessages(_, _)
\* GeminiToOpenAIAdapter.AdaptRequest, lines 96-189: openaiReq["messages"]
GeminiToOpenAIMessages(contents, t) ==
    IF contents = <<>> THEN <<>>
    ELSE <<GeminiToOpenAIMessage(Head(contents), t)>>
         \o GeminiToOpenAIMessages(Tail(contents),
                                   t + Len(toolCalls(Head(contents).parts, t)))

RECURSIVE ToolUseBlocks(_)
\* openai_to_claude.go lines 86-106: tool_calls become tool_use blocks
ToolUseBlocks(tool_calls) ==
    IF tool_calls = <<>> THEN <<>>
    ELSE <<ClaudeBlock("tool_use", "", Head(tool_calls).id, Head(tool_calls).name, "")>>
         \o ToolUseBlocks(Tail(tool_calls))

\* lines 37-122: the messages one OpenAI message becomes (none for a system message)
OpenAIToClaudeMessage(msg) ==
    IF msg.role = "system" THEN <<>>
    ELSE IF msg.role = "tool"
    THEN <<ClaudeMessage("user", "list", "",
              <<ClaudeBlock("tool_result", msg.content, "", "", msg.tool_call_id)>>)>>
    ELSE IF msg.role = "assistant"
    THEN IF Len(msg.tool_calls) > 0
         THEN <<ClaudeMessage("assistant", "list", "",
                   (IF msg.content # "" THEN <<ClaudeBlock("text", msg.content, "", "", "")>>
                    ELSE <<>>)
                   \o ToolUseBlocks(msg.tool_calls))>>
         ELSE <<ClaudeMessage("assistant", "string", msg.content, <<>>)>>
    ELSE IF msg.role = "user"
    THEN <<ClaudeMessage("user", "string", msg.content, <<>>)>>
    ELSE <<>>

RECURSIVE OpenAIToClaudeMessages(_)
\* OpenAIToClaudeAdapter.AdaptRequest, lines 30-125: claudeReq["messages"]
OpenAIToClaudeMessages(messages) ==
    IF messages = <<>> THEN <<>>
    ELSE OpenAIToClaudeMessage(Head(messages)) \o OpenAIToClaudeMessages(Tail(messages))

InitTranscode ==
    /\ StoreInit
    /\ SessionIdle
    /\ FingerprintIdle
    /\ StreamIdle
    /\ ProxyIdle
    /\ transcoder = ""
    /\ source \in GeminiRequests \cup OpenAIRequests
    /\ emitted = <<>>
    /\ nanos \in 1..MaxNanos
    /\ schema = JNull
    /\ sanitized = <<>>
    /\ finished = <<>>

outsideAdapters == <<storeVars, sessionVars, fingerprintVars, streamVars, proxyVars>>

\* GeminiToOpenAIAdapter.AdaptRequest on a Gemini request
GeminiToOpenAIAdaptRequest ==
    /\ transcoder = "" /\ source.dialect = "gemini"
    /\ transcoder' = "gemini-to-openai"
    /\ emitted' = GeminiToOpenAIMessages(source.messages, nanos)
    /\ nanos' = nanos + 1
    /\ UNCHANGED <<outsideAdapters, source, schema, sanitized, finished>>

\* OpenAIToClaudeAdapter.AdaptRequest on an OpenAI request
OpenAIToClaudeAdaptRequest ==
    /\ transcoder = "" /\ source.dialect = "openai"
    /\ transcoder' = "openai-to-claude"
    /\ emitted' = OpenAIToClaudeMessages(source.messages)
    /\ UNCHANGED <<outsideAdapters, source, nanos, schema, sanitized, finished>>

NextTranscode ==
    \/ GeminiToOpenAIAdaptRequest
    \/ OpenAIToClaudeAdaptRequest

SpecTranscode == InitTranscode /\ [][NextTranscode]_vars

-----------------------------------------------------------------------------
(* SpecSanitize: sanitizeJSONSchema applied to a tool's schema, then to its own   *)
(* result                                                                        *)

\* cursor_adapter.go lines 556-561
skipFields == {"additionalProperties", "$schema", "title", "default"}

\* The keys of a schema that an anyOf option can also set
MergeKeys == {"type", "required"}

\* The first option the loop of lines 582-598 uses: a map whose type is not "null"
\* and that has no "not" (0 when there is none)
FirstValidOption(options) ==
    LET valid == {i \in DOMAIN options :
                    /\ options[i].t = "map"
                    /\ ~(/\ "type" \in DOMAIN options[i].m
                         /\ options[i].m["type"].t = "string"
                         /\ options[i].m["type"].s = "null")
                    /\ "not" \notin DOMAIN options[i].m}
    IN  IF valid = {} THEN 0 ELSE CHOOSE i \in valid : \A j \in valid : i <= j

RECURSIVE sanitizeJSONSchemaRawOption(_, _)
\* sanitizeJSONSchema without the call of line 591: the first usable option of
\* anyOf is merged as it is.
sanitizeJSONSchemaRawOption(s, first) ==
    IF s.t = "null" THEN JMap(<<>>)
    ELSE IF s.t # "map" THEN s
    ELSE LET m == s.m
             skipped(k) == \/ k = "required" /\ m[k].t = "array" /\ Len(m[k].a) = 0
                           \/ k \in skipFields
             isAnyOf(k) == k = "anyOf" /\ m[k].t = "array"
             ownKeys == {k \in DOMAIN m : ~skipped(k) /\ ~isAnyOf(k)}
             options == IF "anyOf" \in DOMAIN m /\ isAnyOf("anyOf") THEN m["anyOf"].a
                        ELSE <<>>
             merged == IF FirstValidOption(options) = 0 THEN <<>>
                       ELSE options[FirstValidOption(options)].m
             own(k) ==
                 IF k = "properties" /\ m[k].t = "map"
                 THEN JMap([p \in DOMAIN m[k].m |->
                              sanitizeJSONSchemaRawOption(m[k].m[p], first)])
                 ELSE IF m[k].t = "map" THEN sanitizeJSONSchemaRawOption(m[k], first)
                 ELSE IF m[k].t = "array"
                 THEN JArray([i \in DOMAIN m[k].a |->
                                IF m[k].a[i].t = "map"
                                THEN sanitizeJSONSchemaRawOption(m[k].a[i], first)
                                ELSE m[k].a[i]])
                 ELSE m[k]
         IN  JMap([k \in ownKeys \cup DOMAIN merged |->
                     IF k \in DOMAIN merged /\ (k \notin ownKeys \/ k \in first)
                     THEN merged[k] ELSE own(k)])

RECURSIVE sanitizeJSONSchema(_, _)
\* sanitizeJSONSchema, lines 545-635. Go visits the keys of schemaMap in an order
\* of its own choosing; first holds the keys visited before "anyOf", whose entries
\* the merge of line 594 overwrites, the others overwrite the merged ones.
sanitizeJSONSchema(s, first) ==
    IF s.t = "null" THEN JMap(<<>>)
    ELSE IF s.t # "map" THEN s
    ELSE LET m == s.m
             skipped(k) == \/ k = "required" /\ m[k].t = "array" /\ Len(m[k].a) = 0
                           \/ k \in skipFields
             isAnyOf(k) == k = "anyOf" /\ m[k].t = "array"
             ownKeys == {k \in DOMAIN m : ~skipped(k) /\ ~isAnyOf(k)}
             options == IF "anyOf" \in DOMAIN m /\ isAnyOf("anyOf") THEN m["anyOf"].a
                        ELSE <<>>
             merged == IF FirstValidOption(options) = 0 THEN <<>>
                       ELSE sanitizeJSONSchema(options[FirstValidOption(options)], first).m
             own(k) ==
                 IF k = "properties" /\ m[k].t = "map"
                 THEN JMap([p \in DOMAIN m[k].m |-> sanitizeJSONSchema(m[k].m[p], first)])
                 ELSE IF m[k].t = "map" THEN sanitizeJSONSchema(m[k], first)
                 ELSE IF m[k].t = "array"
                 THEN JArray([i \in DOMAIN m[k].a |->
                                IF m[k].a[i].t = "map"
                                THEN sanitizeJSONSchema(m[k].a[i], first)
                                ELSE m[k].a[i]])
                 ELSE m[k]
         IN  JMap([k \in ownKeys \cup DOMAIN merged |->
                     IF k \in DOMAIN merged /\ (k \notin ownKeys \/ k \in first)
                     THEN merged[k] ELSE own(k)])

\* A key a schema does not have
Absent == [t |-> "absent"]

\* The map with the entries of c that are present
SchemaOf(c) == JMap([k \in {k \in DOMAIN c : c[k] # Absent} |-> c[k]])

\* The schema of a string property, with fields the sanitizer removes
StringSchema ==
    SchemaOf([type |-> JString("string"), default |-> JString("x"),
              title |-> JString("T"), required |-> JArray(<<>>)])

\* The anyOf arrays of the schemas
AnyOfs ==
    {Absent,
     JArray(<<SchemaOf([type |-> JString("null")]), StringSchema>>),
     JArray(<<SchemaOf([not |-> JMap(<<>>)]), JString("x")>>),
     JArray(<<SchemaOf([type |-> JString("integer"),
                        required |-> JArray(<<JString("a")>>),
                        anyOf |-> JArray(<<SchemaOf([type |-> JString("null")]),
                                           StringSchema>>)])>>)}

\* The schemas the tools of a request declare
Schemas ==
    {JNull, JString("string")}
    \cup {SchemaOf([type |-> type, title |-> title, required |-> required,
                    anyOf |-> anyOf, properties |-> properties, items |-> items,
                    additionalProperties |-> additional]) :
            type \in {Absent, JString("object")},
            title \in {Absent, JString("T")},
            required \in {Absent, JArray(<<>>), JArray(<<JString("a")>>)},
            anyOf \in AnyOfs,
            properties \in {Absent, JMap([title |-> StringSchema, a |-> JNull])},
            items \in {Absent, StringSchema},
            additional \in {Absent, JBool(FALSE)}}

InitSanitize ==
    /\ StoreInit
    /\ SessionIdle
    /\ FingerprintIdle
    /\ StreamIdle
    /\ ProxyIdle
    /\ transcoder = ""
    /\ source = NoSource
    /\ emitted = <<>>
    /\ nanos = 1
    /\ schema \in Schemas
    /\ sanitized = <<>>
    /\ finished = <<>>

\* sanitizeJSONSchema is called on the schema, or on the result of the call before
Sanitize(first) ==
    /\ Len(sanitized) < MaxPasses
    /\ sanitized' = Append(sanitized,
          sanitizeJSONSchema(IF sanitized = <<>> THEN schema
                             ELSE sanitized[Len(sanitized)], first))
    /\ UNCHANGED <<outsideAdapters, transcoder, source, emitted, nanos, schema, finished>>

NextSanitize == \E first \in SUBSET MergeKeys : Sanitize(first)

SpecSanitize == InitSanitize /\ [][NextSanitize]_vars

-----------------------------------------------------------------------------
(* SpecFinish: the finish reason of upstream replies, converted by the adapter    *)
(* of the route for the client                                                   *)

\* ClaudeToOpenAIAdapter.AdaptStreamChunk on message_delta, claude_to_openai.go
\* lines 185-191
ClaudeToOpenAIStopReason(stopReason) ==
    IF stopReason = "max_tokens" THEN "length" ELSE "stop"

\* GeminiAdapter.convertFinishReason, claude_to_openai.go lines 470-490
convertFinishReason(finishReason) ==
    IF finishReason = "" THEN ""
    ELSE IF finishReason = "STOP" THEN "stop"
    ELSE IF finishReason = "MAX_TOKENS" THEN "length"
    ELSE IF finishReason = "SAFETY" THEN "content_filter"
    ELSE IF finishReason = "RECITATION" THEN "content_filter"
    ELSE IF finishReason = "OTHER" THEN "stop"
    ELSE "stop"

\* ClaudeToGeminiAdapter.AdaptResponse, claude_to_gemini.go lines 215 and 248-257:
\* the stop_reason of the Claude reply built from a Gemini candidate
ClaudeToGeminiStopReason(finishReason) ==
    IF finishReason = "STOP" THEN "end_turn"
    ELSE IF finishReason = "MAX_TOKENS" THEN "max_tokens"
    ELSE IF finishReason \in {"SAFETY", "RECITATION"} THEN "end_turn"
    ELSE "end_turn"

\* GeminiToClaudeAdapter.AdaptResponse, gemini_to_claude.go lines 215 and 241-252:
\* the finishReason of the Gemini reply built from a Claude reply
GeminiToClaudeFinishReason(sr) ==
    IF sr = "end_turn" THEN "STOP"
    ELSE IF sr = "max_tokens" THEN "MAX_TOKENS"
    ELSE IF sr = "stop_sequence" THEN "STOP"
    ELSE IF sr = "tool_use" THEN "STOP"
    ELSE "STOP"

\* The adapters that convert a finish reason, with the dialect of the upstream
\* they read and of the client they answer
FinishAdapters ==
    {[name |-> "anthropic", upstream |-> "anthropic", client |-> "openai"],
     [name |-> "claude-to-openai", upstream |-> "anthropic", client |-> "openai"],
     [name |-> "gemini", upstream |-> "gemini", client |-> "openai"],
     [name |-> "claude-to-gemini", upstream |-> "gemini", client |-> "anthropic"],
     [name |-> "gemini-to-claude", upstream |-> "anthropic", client |-> "gemini"]}

\* The finish reasons an upstream of the dialect gives
UpstreamReasons(dialect) ==
    IF dialect = "anthropic" THEN {"end_turn", "max_tokens", "stop_sequence", "tool_use"}
    ELSE {"STOP", "MAX_TOKENS", "SAFETY", "RECITATION", "OTHER"}

\* The reason the adapter hands to the client
AdaptedFinishReason(name, reason) ==
    IF name = "anthropic" THEN convertStopReason(reason)
    ELSE IF name = "claude-to-openai" THEN ClaudeToOpenAIStopReason(reason)
    ELSE IF name = "gemini" THEN convertFinishReason(reason)
    ELSE IF name = "claude-to-gemini" THEN ClaudeToGeminiStopReason(reason)
    ELSE GeminiToClaudeFinishReason(reason)

InitFinish ==
    /\ StoreInit
    /\ SessionIdle
    /\ FingerprintIdle
    /\ AdapterIdle
    /\ StreamIdle
    /\ ProxyIdle

\* AdaptResponse, or AdaptStreamChunk on the closing chunk, of the adapter on a
\* reply that ends with the reason
AdaptFinishReason(adapter, reason) ==
    /\ Len(finished) < MaxReplies
    /\ reason \in UpstreamReasons(adapter.upstream)
    /\ finished' = Append(finished,
          [adapter |-> adapter.name, upstream |-> adapter.upstream,
           client |-> adapter.client, reason |-> reason,
           converted |-> AdaptedFinishReason(adapter.name, reason)])
    /\ UNCHANGED <<outsideAdapters, transcoder, source, emitted, nanos, schema, sanitized>>

NextFinish ==
    \E adapter \in FinishAdapters :
        \E reason \in UpstreamReasons(adapter.upstream) : AdaptFinishReason(adapter, reason)

SpecFinish == InitFinish /\ [][NextFinish]_vars

-----------------------------------------------------------------------------
(* Properties of the signature store *)

\* Step i completes a ClearSignatureForSession(s)
ClearsSession(s) ==
    \E i \in Callers : pc[i] = "clear_delete" /\ pc'[i] = "idle" /\ arg[i].sessionID = s

\* C1: while the entry of a session is within its TTL, no step of a store call, a
\* get call, the sweeper or the clock removes it, and a step changes its signature
\* only to a strictly longer one.
C1_SignatureMonotone ==
    [][\A s \in SessionIDs :
         (s \in DOMAIN store /\ ~Expired(store[s], now) /\ ~ClearsSession(s))
         => /\ s \in DOMAIN store'
            /\ \/ store'[s] = store[s]
               \/ Len(store'[s].Signature) > Len(store[s].Signature)]_vars

\* A store call for FA has just replaced a 60-character signature by S2.
C1_Witness ==
    /\ ret.op = "store" /\ ret.sessionID = FA /\ ret.outcome = "replaced"
    /\ FA \in DOMAIN store /\ store[FA].Signature = S2

\* C2: when store calls for FA have completed for exactly S1 and S2, whatever their
\* interleaving, and since the first of them FA was not cleared and the clock did
\* not move, a get for FA returns S2.
C2_ConcurrentStoresKeepLongest ==
    (offered = {S1, S2} /\ epoch = "open")
    => GetSignatureForSession(Lookup(store, FA), now) = S2

\* Both store calls completed and a get for FA returned S2.
C2_Witness ==
    /\ offered = {S1, S2} /\ epoch = "open"
    /\ ret.op = "get" /\ ret.sessionID = FA /\ ret.value = S2

\* C3: a get call returns the session's signature when the entry is present and
\* the clock is not past its ExpiresAt, and the empty string otherwise.
C3_GetExactlyWhenLive ==
    [][\A i \in Callers :
         (pc[i] = "get_read" /\ pc'[i] = "idle")
         => /\ ret'.op = "get"
            /\ ret'.value =
                 IF arg[i].sessionID \in DOMAIN store
                    /\ now <= store[arg[i].sessionID].ExpiresAt
                 THEN store[arg[i].sessionID].Signature
                 ELSE ""]_vars

\* A get returned "" for an entry that is expired and still in the map.
C3_Witness ==
    /\ ret.op = "get" /\ ret.value = "" /\ ret.sessionID \in DOMAIN store
    /\ now > store[ret.sessionID].ExpiresAt

-----------------------------------------------------------------------------
(* Properties of the cursor adapter's signature handling *)

\* C4: the signature a filter call reads for a request, and every signature it puts
\* on a block of that request, was issued to the request's own conversation.
C4_SessionIsolation ==
    filterRet.conv # ""
    => /\ filterRet.globalSig \in {""} \cup UpstreamSignatures(filterRet.conv)
       /\ \A k \in 1..Len(filterRet.output) :
            \A j \in 1..Len(filterRet.output[k].content) :
               LET block == filterRet.output[k].content[j]
               IN  (block.type = "thinking" /\ Len(block.signature) >= MinSignatureLength)
                   => block.signature \in UpstreamSignatures(filterRet.conv)

\* C5: every request of the conversation that carries at least one message gets
\* the same fingerprint.
C5_StableFingerprint ==
    \A a, b \in DOMAIN sessionIDs :
        (sessionIDs[a] # "" /\ sessionIDs[b] # "") => sessionIDs[a] = sessionIDs[b]

-----------------------------------------------------------------------------
(* Properties of the stream relay *)

\* C6: when the relay of a stream through the anthropic or the cursor adapter has
\* returned, every signature the upstream sent on it is the signature the store
\* holds under the request's fingerprint.
C6_StreamedSignatureStored ==
    (streamRet = "nil" /\ adapterName \in {"anthropic", "cursor"})
    => \A k \in 1..scanned :
          upstream[k].signature # ""
          => /\ RequestFingerprint \in DOMAIN store
             /\ store[RequestFingerprint].Signature = upstream[k].signature

EventsOfType(type) == {k \in DOMAIN writer : writer[k].type = type}

OpenAIDialect == adapterName \in {"", "anthropic", "deepseek", "cursor"}

\* C9: an OpenAI-dialect client stream whose relay returned without error, no write
\* to the client having failed, has "data: [DONE]" as the last thing written.
C9_DoneTerminates ==
    (streamRet = "nil" /\ OpenAIDialect /\ failedAt = 0)
    => /\ writer # <<>>
       /\ writer[Len(writer)] = DoneLine

-----------------------------------------------------------------------------
(* Properties of ProxyRequest *)

\* C10: when ProxyRequest has returned and the upstream's first answer was a 400
\* mentioning the thought signature, a second request was dispatched, with its
\* thinking blocks demoted and reasoning disabled, and the client got the second
\* answer.
C10_SignatureErrorRetried ==
    (/\ proxyPc = "returned"
     /\ answers # <<>>
     /\ answers[1] = [status |-> 400, body |-> "thought_signature invalid"])
    => /\ Len(dispatches) >= 2
       /\ ~dispatches[2].hasThinking
       /\ ~dispatches[2].reasoning
       /\ Len(answers) >= 2
       /\ clientResp.status = answers[2].status

\* C11: when the model of the request is the redirect keyword and the redirect is
\* enabled where the handler resolves it, every usage row written for the request
\* carries the model the client named.
C11_LogsOriginalModel ==
    (/\ configSeen # <<>>
     /\ configSeen[1].values.RedirectEnabled
     /\ request.model = configSeen[1].values.RedirectKeyword)
    => \A k \in DOMAIN usageLog : usageLog[k].model = request.model

\* C12: when the handling of a request for which a route was found has ended,
\* exactly one usage row was written.
C12_ExactlyOneLogRow ==
    (proxyPc \in {"returned", "panicked"} /\ local.routeID # 0)
    => Len(usageLog) = 1

\* C13: when the route lookup for the model of the request, redirected or not, found
\* no enabled route, the client received 404 with the available models in the body,
\* and nothing was sent upstream.
C13_ModelNotFound ==
    (proxyPc = "returned" /\ local.model # "" /\ GetRouteByModel(local.model) = {})
    => /\ clientResp.status = 404
       /\ clientResp.models = GetAvailableModels
       /\ dispatches = <<>>

\* C14: all the values of s.config the handler of one request read are the values
\* of one configuration installed as a whole.
C14_OneConfigVersion ==
    \E v \in versions :
        \A k \in DOMAIN configSeen :
            \A f \in configSeen[k].fields : configSeen[k].values[f] = v[f]

\* C20: every upstream request carries "Bearer " and the route's key when the route
\* has a key, and the client's Authorization value when it has none.
C20_RouteCredentialFirst ==
    \A k \in DOMAIN dispatches :
        LET route == RouteByID(dispatches[k].routeID)
        IN  /\ route.APIKey # "" => dispatches[k].auth = "Bearer " \o route.APIKey
            /\ route.APIKey = "" => dispatches[k].auth = request.auth
            /\ (request.auth # "" /\ dispatches[k].auth = request.auth)
               => route.APIKey = ""

\* A client that sent its own Authorization was served through a route that has a
\* key, and the upstream request carried the route's key.
C20_Witness ==
    /\ proxyPc = "returned" /\ request.auth = "Bearer client"
    /\ dispatches # <<>>
    /\ RouteByID(dispatches[1].routeID).APIKey = "sk-1"
    /\ dispatches[1].auth = "Bearer sk-1"

\* C15: once a write to the client has failed, no further line of the upstream is
\* read.
C15_DisconnectStopsUpstreamRead ==
    failedAt # 0 => scanned = failedAt

-----------------------------------------------------------------------------
(* Properties of FilterInvalidThinkingBlocks *)

\* C16: after a filter call every assistant (or model) message whose content is a
\* block list has at least one block, and when every block of the message was a
\* thinking block the filter drops (or there was none), the content is one empty
\* text block.
C16_AtLeastOneBlock ==
    filterRet.conv # ""
    => \A k \in 1..Len(filterRet.output) :
          LET in  == filterRet.input[k]
              out == filterRet.output[k]
          IN  (out.role \in {"assistant", "model"} /\ out.kind = "list")
              => /\ Len(out.content) >= 1
                 /\ (\A j \in 1..Len(in.content) :
                        /\ in.content[j].type = "thinking"
                        /\ TrimSpaceIsEmpty(in.content[j].thinking)
                        /\ ~HasValidSignature(in.content[j])
                        /\ Len(filterRet.globalSig) < MinSignatureLength)
                    => out.content = <<TextBlock("")>>

\* A filter call dropped the only block of an assistant message, a blank thinking
\* block without signature, and left one empty text block.
C16_Witness ==
    /\ filterRet.conv # ""
    /\ filterRet.input[2].role = "assistant"
    /\ filterRet.input[2].content = <<ThinkingBlock(" ", "")>>
    /\ filterRet.output[2].content = <<TextBlock("")>>
    /\ filterRet.totalFiltered = 1

\* C18: in every assistant (or model) message a filter call hands on, each thinking
\* block stands before every block of another type.
C18_ThinkingFirst ==
    filterRet.conv # ""
    => \A k \in 1..Len(filterRet.output) :
          LET out == filterRet.output[k]
          IN  (out.role \in {"assistant", "model"} /\ out.kind = "list")
              => \A i, j \in 1..Len(out.content) :
                    (i < j /\ out.content[j].type = "thinking")
                    => out.content[i].type = "thinking"

-----------------------------------------------------------------------------
(* Properties of the request transcoders *)

\* The ids of the tool calls the k-th emitted message makes
EmittedCallIDs(k) ==
    IF transcoder = "gemini-to-openai"
    THEN {emitted[k].tool_calls[c].id : c \in DOMAIN emitted[k].tool_calls}
    ELSE {emitted[k].content[b].id :
            b \in {b \in DOMAIN emitted[k].content : emitted[k].content[b].type = "tool_use"}}

\* The ids the tool results of the k-th emitted message refer to
EmittedResultIDs(k) ==
    IF transcoder = "gemini-to-openai"
    THEN IF emitted[k].role = "tool" THEN {emitted[k].tool_call_id} ELSE {}
    ELSE {emitted[k].content[b].tool_use_id :
            b \in {b \in DOMAIN emitted[k].content :
                     emitted[k].content[b].type = "tool_result"}}

\* C17: in the transcoded request every tool result refers to the id of a tool call
\* made in an earlier message (in the source each result answers such a call).
C17_ToolResultCorrelated ==
    \A j \in DOMAIN emitted :
        \A r \in EmittedResultIDs(j) :
            \E i \in 1..(j - 1) : r \in EmittedCallIDs(i)

-----------------------------------------------------------------------------
(* Properties of sanitizeJSONSchema *)

\* C19: sanitizing the result of a sanitizeJSONSchema call yields that result again,
\* whatever order Go visits the keys in, in either call.
C19_SanitizeIdempotent ==
    \A k \in 2..Len(sanitized) : sanitized[k] = sanitized[k - 1]

\* A schema with title, an empty required list, an anyOf whose first usable option
\* has a nested anyOf, and properties with defaults was sanitized twice, and the
\* first call changed it.
C19_Witness ==
    /\ Len(sanitized) >= 2
    /\ schema.t = "map"
    /\ {"title", "required", "anyOf", "properties"} \subseteq DOMAIN schema.m
    /\ schema.m["required"] = JArray(<<>>)
    /\ Len(schema.m["anyOf"].a) = 1
    /\ sanitized[1] # schema
    /\ "integer" = sanitized[1].m["type"].s

-----------------------------------------------------------------------------
(* Properties of the signature store: expiry, rejection, short session ids *)

\* Step of caller i that completes its store call
CompletesStore(i) == pc[i] = "store_write" /\ pc'[i] = "idle"

\* C24: a store call with a non-empty signature that finds the session's entry past
\* its ExpiresAt, still in the map, replaces it whatever the length of the expired
\* signature, so that the session then holds the new signature.
C24_ExpiredEntryReplaced ==
    [][\A i \in Callers :
         (/\ CompletesStore(i)
          /\ arg[i].sessionID \in DOMAIN store
          /\ Expired(store[arg[i].sessionID], now))
         => /\ arg[i].sessionID \in DOMAIN store'
            /\ store'[arg[i].sessionID].Signature = arg[i].signature
            /\ GetSignatureForSession(Lookup(store', arg[i].sessionID), now)
                 = arg[i].signature]_vars

\* C29: a store call whose signature is not strictly longer than the one of the
\* session's unexpired entry leaves the map as it was, the entry's ExpiresAt and
\* CreatedAt included.
C29_RejectedStoreChangesNothing ==
    [][\A i \in Callers :
         (/\ CompletesStore(i)
          /\ arg[i].sessionID \in DOMAIN store
          /\ ~Expired(store[arg[i].sessionID], now)
          /\ Len(arg[i].signature) <= Len(store[arg[i].sessionID].Signature))
         => store' = store]_vars

\* A store for a session was rejected half a TTL or more after the entry was
\* written: the entry is unexpired and still runs out one TTL after its creation.
C29_Witness ==
    /\ ret.op = "store" /\ ret.outcome = "rejected"
    /\ ret.sessionID \in DOMAIN store
    /\ now > store[ret.sessionID].CreatedAt
    /\ ~Expired(store[ret.sessionID], now)
    /\ store[ret.sessionID].ExpiresAt = store[ret.sessionID].CreatedAt + ttl

\* C30: a store call and a clear call for a non-empty session id return normally,
\* and the write lock they took is free again when they have ended.
C30_CallsCompleteNormally ==
    (ret.op \in {"store", "clear"} /\ ret.sessionID # "")
    => /\ ~ret.panicked
       /\ \A i \in Callers : pc[i] = "idle" => mu.writer # i

\* C25: a pass of the sweeper, which holds the write lock from its first to its
\* last line, removes exactly the entries whose ExpiresAt is in the past and
\* changes no other; and an expired entry does not stay in the map for ever: it is
\* removed, or replaced by an accepted store.
C25_SweepRemovesExactlyExpired ==
    /\ [][(pc' = pc /\ now' = now /\ store' # store)
          => /\ \A s \in DOMAIN store : s \in DOMAIN store' <=> ~(now > store[s].ExpiresAt)
             /\ \A s \in DOMAIN store' : s \in DOMAIN store /\ store'[s] = store[s]]_vars
    /\ \A s \in SessionIDs :
          (s \in DOMAIN store /\ now > store[s].ExpiresAt)
          ~> (s \notin DOMAIN store \/ now <= store[s].ExpiresAt)

\* The last call to complete created the entry of FA, the TTL has elapsed, and the
\* entry is no longer in the map: a pass of the sweeper removed it.
C25_Witness ==
    /\ ret.op = "store" /\ ret.sessionID = FA /\ ret.outcome = "created"
    /\ FA \notin DOMAIN store
    /\ now > ttl

-----------------------------------------------------------------------------
(* Properties of FilterInvalidThinkingBlocks: the signatures it lets through *)

\* C23: in every assistant (or model) message a filter call hands on, each thinking
\* block carries a signature of at least MinSignatureLength characters, or a
\* non-empty signature on an empty thinking text.
C23_RemainingThinkingIsSigned ==
    filterRet.conv # ""
    => \A k \in 1..Len(filterRet.output) :
          LET out == filterRet.output[k]
          IN  (out.role \in {"assistant", "model"} /\ out.kind = "list")
              => \A j \in 1..Len(out.content) :
                    out.content[j].type = "thinking"
                    => \/ Len(out.content[j].signature) >= MinSignatureLength
                       \/ /\ out.content[j].signature # ""
                          /\ out.content[j].thinking = ""

\* A filter call met two thinking blocks with a short signature while a short
\* signature was stored: it kept the one without text and demoted the other to text.
C23_Witness ==
    /\ filterRet.conv # ""
    /\ filterRet.globalSig = SShort
    /\ filterRet.input[2].role = "assistant"
    /\ filterRet.input[2].content
         = <<ThinkingBlock("", SShort), ThinkingBlock("plan", SShort)>>
    /\ filterRet.output[2].content = <<ThinkingBlock("", SShort), TextBlock("plan")>>

-----------------------------------------------------------------------------
(* Properties of ProxyRequest: the route, the usage row, the adapter *)

\* C21: every request sent upstream goes to an enabled row of model_routes whose
\* model is the one looked up, at that row's URL; so when exactly one enabled row
\* matches, every run of the request is dispatched to that row.
C21_OneEnabledMatchIsChosen ==
    \A k \in DOMAIN dispatches :
        LET route   == RouteByID(dispatches[k].routeID)
            matches == {r \in ModelRoutes : r.Enabled /\ r.Model = dispatches[k].model}
        IN  /\ route.Enabled
            /\ Cardinality(matches) = 1 => matches = {route}
            /\ SubSeq(dispatches[k].url, 1, Len(route.APIUrl)) = route.APIUrl

\* A request for claude-3, which has one enabled and one disabled row, was sent to
\* the enabled one.
C21_Witness ==
    /\ dispatches # <<>>
    /\ dispatches[1].model = "claude-3"
    /\ dispatches[1].routeID = 3
    /\ request.model \in {"claude-3", "proxy_auto"}

\* C27: when the upstream answered a non-streaming request with status 200 and a
\* usage object that lacks a token count, the handler returns, the client receives
\* the 200 reply, and one usage row is written, successful, with the count 0.
C27_MissingTokenCountsDefault ==
    (/\ proxyPc \in {"returned", "panicked"}
     /\ ~request.stream
     /\ answers # <<>>
     /\ answers[Len(answers)] = [status |-> 200, body |-> "usage without total_tokens"])
    => /\ proxyPc = "returned"
       /\ clientResp.status = 200
       /\ Len(usageLog) = 1
       /\ usageLog[1].success
       /\ usageLog[1].tokens = 0

\* C28: a non-streaming reply that went through the adapter's AdaptResponse answers
\* a request that went through the same adapter's AdaptRequest and was sent to the
\* adapter's URL.
C28_AdaptedTogether ==
    (/\ proxyPc = "returned"
     /\ ~request.stream
     /\ answers # <<>>
     /\ clientResp.adapted)
    => /\ dispatches[1].adapted
       /\ dispatches[1].url
            = buildAdapterURL(RouteByID(local.routeID).APIUrl, local.adapterName)

-----------------------------------------------------------------------------
(* Properties of the stream relay: what is written for a chunk without event *)

-----------------------------------------------------------------------------
(* Properties of the finish reason conversions *)

\* The normalization table: upstream dialect, client dialect, the upstream's reason,
\* the client's reason
FinishReasonTable ==
    {<<"anthropic", "openai", "end_turn", "stop">>,
     <<"anthropic", "openai", "max_tokens", "length">>,
     <<"anthropic", "openai", "stop_sequence", "stop">>,
     <<"anthropic", "openai", "tool_use", "tool_calls">>,
     <<"anthropic", "gemini", "end_turn", "STOP">>,
     <<"anthropic", "gemini", "max_tokens", "MAX_TOKENS">>,
     <<"gemini", "openai", "STOP", "stop">>,
     <<"gemini", "openai", "MAX_TOKENS", "length">>,
     <<"gemini", "openai", "SAFETY", "content_filter">>,
     <<"gemini", "openai", "RECITATION", "content_filter">>,
     <<"gemini", "anthropic", "STOP", "end_turn">>,
     <<"gemini", "anthropic", "MAX_TOKENS", "max_tokens">>}

\* C22: every finish reason an adapter converted for the client is the one the
\* normalization table gives for the upstream's reason, where the table has a row.
C22_FinishReasonNormalized ==
    \A k \in DOMAIN finished :
        \A row \in FinishReasonTable :
            (/\ row[1] = finished[k].upstream
             /\ row[2] = finished[k].client
             /\ row[3] = finished[k].reason)
            => finished[k].converted = row[4]

=============================================================================
